---- MODULE Spec2Model ----
(***************************************************************************)
(* Verification model of the strava-mcp-server tool-orchestration core:   *)
(* the range cache (SmartCache), the cache-backed fetch layer              *)
(* (fetchActivities) and the tool dispatcher (CallToolRequestSchema        *)
(* handler).                                                               *)
(*                                                                         *)
(* Dates are the integers yyyymmdd: the code compares "YYYY-MM-DD" strings *)
(* lexicographically, which is the integer order on yyyymmdd.  Times are   *)
(* milliseconds, as Date.now() gives them.                                 *)
(***************************************************************************)
EXTENDS Integers, Sequences, FiniteSets, TLC

VARIABLES
    now,                \* Date.now(), in ms since the process started
    srcCount,           \* the Activity Source holds the activities 1..srcCount
    allActivitiesCache, \* SmartCache.allActivitiesCache: <<>> is null, else <<entry>>
    queryCache,         \* SmartCache.queryCache: the Map, in insertion order
    pc,                 \* per request: position inside fetchActivities
    opts,               \* per request: the FetchOptions of its fetchActivities call
    res,                \* per request: the list fetchActivities returned
    called,             \* per request: the Activity Source was invoked
    nFetch,             \* fetchActivities calls started so far
    hpc,                \* per request: position inside the callTool handler
    tool,               \* per request: request.params.name
    targs,              \* per request: request.params.arguments
    params,             \* per request: the parsed arguments
    lapIdx,             \* per request: lap-loop index (ids already processed)
    allLaps,            \* per request: allLaps of the lap tools (lap ids)
    lapCalls,           \* per request: fetchActivityLaps invocations
    lapIds,             \* per request: the activity ids the lap loop iterates
    lapErrs,            \* per request: lap-loop iterations whose error was swallowed
    threw,              \* per request: the exception the handler's catch received
    nTool,              \* callTool requests started so far
    out,                \* per request: the handler's result
    isConnected,        \* StravaClient.isConnected
    reconnectAttempts,  \* StravaClient.reconnectAttempts
    clientTools,        \* StravaClient.tools
    transports,         \* StdioClientTransport objects created so far
    transportOpen,      \* this.transport is a transport that was not closed
    listCalls,          \* mcp.listTools() calls answered so far
    nCalls,             \* connect / getInsight / disconnect calls started so far
    gpc,                \* per caller: position inside getInsight (or connect)
    question,           \* per caller: the question of its getInsight call
    attemptsInCall,     \* per caller: reconnect attempts made by its getInsight call
    waited,             \* per caller: the delays (ms) its getInsight call slept
    delay,              \* per caller: the delay of the pending setTimeout
    closed,             \* per caller: how the close calls of its latest disconnect() went
    qpc,                \* per caller: position inside query
    messages,           \* per caller: the messages array of its query
    assistantMessage,   \* per caller: content of the latest model response
    toolResults,        \* per caller: toolResults of the current turn
    toolIdx,            \* per caller: tool uses of the turn already executed
    dispatched,         \* per caller: tool-use ids passed to mcp.callTool this turn
    rounds,             \* per caller: turns of its query that executed tools
    payload,            \* per caller: what getInsight returned or threw
    apc,                \* position of the analytics call in progress
    givenActivities,    \* the activity list given to analyzeRuns
    givenRuns,          \* the caller's run list, as analyzeRuns returned it
    fn,                 \* the analytics function called on the run list
    result,             \* what that function returned
    body,               \* per caller: the body of its insight request
    response            \* per caller: what the insight endpoint answered

cacheVars == <<allActivitiesCache, queryCache>>
fetchVars == <<pc, opts, res, called, nFetch>>
toolVars  == <<hpc, tool, targs, params, lapIdx, allLaps, lapCalls, lapIds,
               lapErrs, threw, nTool, out>>
connVars == <<isConnected, reconnectAttempts, clientTools, transports, transportOpen,
              listCalls, nCalls, gpc, question, attemptsInCall, waited, delay, closed,
              payload>>
queryVars == <<qpc, messages, assistantMessage, toolResults, toolIdx, dispatched,
               rounds>>
clientVars == <<connVars, queryVars>>
serverVars == <<now, srcCount, cacheVars, fetchVars, toolVars>>
analysisVars == <<apc, givenActivities, givenRuns, fn, result>>
apiVars == <<body, response>>
outerVars == <<clientVars, analysisVars, apiVars>>
vars == <<now, srcCount, allActivitiesCache, queryCache, pc, opts, res, called,
          nFetch, hpc, tool, targs, params, lapIdx, allLaps, lapCalls, lapIds,
          lapErrs, threw, nTool, out, isConnected, reconnectAttempts, clientTools,
          transports, listCalls, nCalls, gpc, question, attemptsInCall, waited,
          delay, closed, qpc, messages, assistantMessage, toolResults, toolIdx, dispatched,
          rounds, payload, apc, givenActivities, givenRuns, fn, result, body,
          response, transportOpen>>

----------------------------------------------------------------------------
(* Bounds of the model *)

\* fetchActivities calls one behaviour starts
MaxFetches == 3
\* tool calls one behaviour starts
MaxToolCalls == 2
\* connect / getInsight / disconnect calls one behaviour starts
MaxCalls == 3
\* tool-executing turns the model asks for in the queries in progress
MaxRounds == 2
\* distinct fingerprints beyond the cache bound the eviction runs insert
EvictExtra == 2

(* Program constants *)

\* new SmartCache(86400)
TtlSeconds == 86400
\* if (this.queryCache.size > 50)
MaxQueryCache == 50

Ttl == TtlSeconds * 1000

Procs == {"r1", "r2"}

----------------------------------------------------------------------------
(* Calendar *)

None == 0
EpochFloor == 2000 * 10000 + 101
MsPerDay == 24 * 3600 * 1000

YearOf(d)  == d \div 10000
MonthOf(d) == (d \div 100) % 100
DayOf(d)   == d % 100
MkDate(y, m, d) == y * 10000 + m * 100 + d

IsLeap(y) == (y % 4 = 0 /\ y % 100 # 0) \/ y % 400 = 0

\* new Date(year, month, 0).getDate(): the last day of month m of year y
LastDay(y, m) ==
    IF m = 2 THEN (IF IsLeap(y) THEN 29 ELSE 28)
    ELSE IF m \in {4, 6, 9, 11} THEN 30 ELSE 31

NextDay(d) ==
    IF DayOf(d) < LastDay(YearOf(d), MonthOf(d)) THEN d + 1
    ELSE IF MonthOf(d) < 12 THEN MkDate(YearOf(d), MonthOf(d) + 1, 1)
    ELSE MkDate(YearOf(d) + 1, 1, 1)

PrevDay(d) ==
    IF DayOf(d) > 1 THEN d - 1
    ELSE IF MonthOf(d) > 1
         THEN MkDate(YearOf(d), MonthOf(d) - 1, LastDay(YearOf(d), MonthOf(d) - 1))
         ELSE MkDate(YearOf(d) - 1, 12, 31)

RECURSIVE AddDays(_, _)
AddDays(d, n) == IF n = 0 THEN d ELSE AddDays(NextDay(d), n - 1)

\* the date the process started on
StartDay == MkDate(2025, 6, 30)

\* new Date().toISOString().split("T")[0] at clock t
Today(t) == AddDays(StartDay, t \div MsPerDay)

\* new Date(y, m, d).toISOString().split("T")[0]: local midnight rendered in
\* UTC is the day before when the server's zone is ahead of UTC
LocalMidnightIso(d, tzAhead) == IF tzAhead THEN PrevDay(d) ELSE d

\* the zone the modelled server runs in is not ahead of UTC
ServerTzAhead == FALSE

----------------------------------------------------------------------------
(* Activity records (StravaActivity), as the Activity Source holds them *)

\* day and hour are the date and the hour of start_date_local, distance is in
\* metres, moving_time in seconds
Acts == <<
    [id |-> 1, day |-> MkDate(2023, 11, 5), hour |-> 7, type |-> "Ride",
     sport_type |-> "Ride", manual |-> FALSE, private |-> FALSE,
     distance |-> 3400, moving_time |-> 500],
    [id |-> 2, day |-> MkDate(2024, 2, 10), hour |-> 7, type |-> "Run",
     sport_type |-> "TrailRun", manual |-> TRUE, private |-> FALSE,
     distance |-> 3200, moving_time |-> 1100],
    [id |-> 3, day |-> MkDate(2024, 1, 15), hour |-> 7, type |-> "Run",
     sport_type |-> "Run", manual |-> FALSE, private |-> TRUE,
     distance |-> 2000, moving_time |-> 600],
    [id |-> 4, day |-> MkDate(2024, 2, 10), hour |-> 7, type |-> "Run",
     sport_type |-> "Run", manual |-> FALSE, private |-> FALSE,
     distance |-> 1610, moving_time |-> 240],
    [id |-> 5, day |-> MkDate(2024, 1, 21), hour |-> 18, type |-> "Run",
     sport_type |-> "Run", manual |-> FALSE, private |-> FALSE,
     distance |-> 1609, moving_time |-> 600],
    [id |-> 6, day |-> MkDate(2024, 2, 12), hour |-> 6, type |-> "VirtualRun",
     sport_type |-> "VirtualRun", manual |-> FALSE, private |-> FALSE,
     distance |-> 3200, moving_time |-> 239],
    [id |-> 7, day |-> MkDate(2024, 3, 1), hour |-> 6, type |-> "Workout",
     sport_type |-> "Run", manual |-> FALSE, private |-> FALSE,
     distance |-> 3200, moving_time |-> 1100],
    [id |-> 8, day |-> MkDate(2024, 1, 1), hour |-> 18, type |-> "Walk",
     sport_type |-> "Walk", manual |-> FALSE, private |-> FALSE,
     distance |-> 3000, moving_time |-> 2000],
    [id |-> 9, day |-> MkDate(2024, 1, 21), hour |-> 6, type |-> "VirtualRun",
     sport_type |-> "Run", manual |-> FALSE, private |-> FALSE,
     distance |-> 2000, moving_time |-> 600],
    [id |-> 10, day |-> MkDate(2024, 11, 3), hour |-> 7, type |-> "Run",
     sport_type |-> "Run", manual |-> FALSE, private |-> FALSE,
     distance |-> 3200, moving_time |-> 1100],
    [id |-> 11, day |-> MkDate(2024, 11, 3), hour |-> 12, type |-> "Run",
     sport_type |-> "Run", manual |-> FALSE, private |-> FALSE,
     distance |-> 1700, moving_time |-> 600],
    [id |-> 12, day |-> MkDate(2024, 11, 3), hour |-> 18, type |-> "Run",
     sport_type |-> "Run", manual |-> FALSE, private |-> FALSE,
     distance |-> 2000, moving_time |-> 700],
    [id |-> 13, day |-> MkDate(2024, 11, 4), hour |-> 0, type |-> "Run",
     sport_type |-> "Run", manual |-> FALSE, private |-> FALSE,
     distance |-> 2400, moving_time |-> 800] >>

\* the records the Activity Source comes to hold: the first SourceActs of Acts
SourceActs == 3

\* the activities the Activity Source holds when the process starts
InitialActs == SourceActs - 1

ActIds == 1..Len(Acts)

\* ids are listed newest first, as the Activity Source returns them
\* (SmartCache.set reads activities[0] as the latest record)
RECURSIVE InsertDesc(_, _)
InsertDesc(s, i) ==
    IF s = <<>> THEN <<i>>
    ELSE IF Acts[i].day >= Acts[Head(s)].day THEN <<i>> \o s
    ELSE <<Head(s)>> \o InsertDesc(Tail(s), i)

RECURSIVE NewestFirst(_)
NewestFirst(n) == IF n = 0 THEN <<>> ELSE InsertDesc(NewestFirst(n - 1), n)

\* client.fetchAllActivities()
FetchAllActivities(n) == NewestFirst(n)

\* client.fetchActivitiesByDateRange(startDate, endDate), both inclusive
FetchActivitiesByDateRange(n, startDate, endDate) ==
    SelectSeq(NewestFirst(n),
              LAMBDA i : Acts[i].day >= startDate /\ Acts[i].day <= endDate)

----------------------------------------------------------------------------
(* FetchOptions *)

Options(df, y, m, b, a, t, man, priv) ==
    [df |-> df, year |-> y, month |-> m, before |-> b, after |-> a,
     activityType |-> t, includeManual |-> man, includePrivate |-> priv]

DateOpts(y, m, b, a) == Options(TRUE, y, m, b, a, "", "unset", "unset")

NoOpts == Options(FALSE, None, None, None, None, "", "unset", "unset")

\* the FetchOptions the requests of the model are drawn from
QueryShapes == {
    NoOpts,
    DateOpts(2024, None, None, None),
    DateOpts(2024, 1, None, None),
    DateOpts(2024, None, None, MkDate(1999, 6, 1)),
    Options(FALSE, None, None, None, None, "TrailRun", "unset", "unset"),
    Options(TRUE, 2024, None, None, None, "", "false", "false") }

\* JSON.stringify(options): the present fields, in declaration order
QueryKey(o) ==
    (IF o.df
     THEN <<"dateFilter">>
          \o (IF o.year # None THEN <<"year", o.year>> ELSE <<>>)
          \o (IF o.month # None THEN <<"month", o.month>> ELSE <<>>)
          \o (IF o.before # None THEN <<"before", o.before>> ELSE <<>>)
          \o (IF o.after # None THEN <<"after", o.after>> ELSE <<>>)
     ELSE <<>>)
    \o (IF o.activityType # "" THEN <<"activityType", o.activityType>> ELSE <<>>)
    \o (IF o.includeManual # "unset" THEN <<"includeManual", o.includeManual>> ELSE <<>>)
    \o (IF o.includePrivate # "unset" THEN <<"includePrivate", o.includePrivate>> ELSE <<>>)

----------------------------------------------------------------------------
(* SmartCache *)

\* a CachedData of the exact-match Map, with the key it is stored under
QueryEntry(k, acts, t) == [key |-> k, activities |-> acts, timestamp |-> t]

\* the CachedData of the all-activities cache
AllEntry(acts, t) ==
    [activities |-> acts, timestamp |-> t,
     dateRange |-> [start |-> IF acts = <<>> THEN EpochFloor
                              ELSE Acts[acts[Len(acts)]].day,
                    end   |-> IF acts = <<>> THEN Today(t)
                              ELSE Acts[acts[1]].day]]

\* variant: an entry expires already at age = ttl
IsExpired_AtTtl(timestamp, t) == t - timestamp >= Ttl

IsExpired(timestamp, t) == t - timestamp > Ttl

IsAllTimeRequest(o) ==
    IF ~o.df THEN TRUE
    ELSE IF o.year = None /\ o.month = None /\ o.before = None /\ o.after = None
         THEN TRUE
    ELSE IF o.after # None /\ o.after <= EpochFloor /\ o.before = None
         THEN TRUE
    ELSE FALSE

\* SmartCache.getDateRangeFromFilter at clock t, the process running in a zone
\* ahead of UTC or not: before and after are UTC midnights, as new Date of a
\* YYYY-MM-DD string gives them, and are copied with new Date(...)
SmartCacheDateRange(o, t, tzAhead) ==
    LET base ==
            IF o.year # None /\ o.month # None
            THEN [startDate |-> LocalMidnightIso(MkDate(o.year, o.month, 1), tzAhead),
                  endDate   |-> LocalMidnightIso(
                                    MkDate(o.year, o.month, LastDay(o.year, o.month)),
                                    tzAhead)]
            ELSE IF o.year # None
            THEN [startDate |-> LocalMidnightIso(MkDate(o.year, 1, 1), tzAhead),
                  endDate   |-> LocalMidnightIso(MkDate(o.year, 12, 31), tzAhead)]
            ELSE [startDate |-> LocalMidnightIso(EpochFloor, tzAhead),
                  endDate   |-> Today(t)]
    IN  [startDate |-> IF o.after # None THEN o.after ELSE base.startDate,
         endDate   |-> IF o.before # None THEN o.before ELSE base.endDate]

\* getDateRangeFromFilter of fetch-activities at clock t: before and after
\* are taken as the Date objects they are
FetchDateRange(o, t, tzAhead) ==
    LET base ==
            IF o.year # None /\ o.month # None
            THEN [startDate |-> LocalMidnightIso(MkDate(o.year, o.month, 1), tzAhead),
                  endDate   |-> LocalMidnightIso(
                                    MkDate(o.year, o.month, LastDay(o.year, o.month)),
                                    tzAhead)]
            ELSE IF o.year # None
            THEN [startDate |-> LocalMidnightIso(MkDate(o.year, 1, 1), tzAhead),
                  endDate   |-> LocalMidnightIso(MkDate(o.year, 12, 31), tzAhead)]
            ELSE [startDate |-> LocalMidnightIso(EpochFloor, tzAhead),
                  endDate   |-> Today(t)]
    IN  [startDate |-> IF o.after # None THEN o.after ELSE base.startDate,
         endDate   |-> IF o.before # None THEN o.before ELSE base.endDate]

\* SmartCache.getDateRangeFromFilter in the zone of the modelled server
GetDateRangeFromFilter(o, t) == SmartCacheDateRange(o, t, ServerTzAhead)

ApplyFilters(acts, o, t) ==
    LET range == GetDateRangeFromFilter(o, t)
        byDate == IF o.df
                  THEN SelectSeq(acts, LAMBDA i : Acts[i].day >= range.startDate
                                                  /\ Acts[i].day <= range.endDate)
                  ELSE acts
        byType == IF o.activityType # ""
                  THEN SelectSeq(byDate, LAMBDA i : Acts[i].type = o.activityType
                                                    \/ Acts[i].sport_type = o.activityType)
                  ELSE byDate
        byManual == IF o.includeManual = "false"
                    THEN SelectSeq(byType, LAMBDA i : ~Acts[i].manual)
                    ELSE byType
    IN  IF o.includePrivate = "false"
        THEN SelectSeq(byManual, LAMBDA i : ~Acts[i].private)
        ELSE byManual

CanServeFromAllTime(all, o) == all # <<>> /\ o.df

\* this.queryCache.get(queryKey): <<>> when the Map has no such key
MapGet(map, k) == SelectSeq(map, LAMBDA e : e.key = k)

Miss == [hit |-> FALSE, activities |-> <<>>]
Hit(acts) == [hit |-> TRUE, activities |-> acts]

\* variant: the exact-match entry is consulted before the all-activities cache
CacheGet_ExactFirst(all, map, o, t) ==
    LET cached == MapGet(map, QueryKey(o))
    IN  IF cached # <<>> /\ ~IsExpired(cached[1].timestamp, t)
        THEN Hit(cached[1].activities)
        ELSE IF all # <<>> /\ ~IsExpired(all[1].timestamp, t)
                /\ (IsAllTimeRequest(o) \/ CanServeFromAllTime(all, o))
             THEN Hit(ApplyFilters(all[1].activities, o, t))
             ELSE Miss

\* SmartCache.get(options) at clock t
CacheGet(all, map, o, t) ==
    IF all # <<>> /\ ~IsExpired(all[1].timestamp, t)
       /\ (IsAllTimeRequest(o) \/ CanServeFromAllTime(all, o))
    THEN Hit(ApplyFilters(all[1].activities, o, t))
    ELSE LET cached == MapGet(map, QueryKey(o))
         IN  IF cached # <<>> /\ ~IsExpired(cached[1].timestamp, t)
             THEN Hit(cached[1].activities)
             ELSE Miss

\* variant: a list of entries that is appended to, not a Map
MapSet_Append(map, e) == Append(map, e)

\* Map.set(key, value): an existing key keeps its place in the insertion order
MapSet(map, e) ==
    IF \E i \in 1..Len(map) : map[i].key = e.key
    THEN [i \in 1..Len(map) |-> IF map[i].key = e.key THEN e ELSE map[i]]
    ELSE Append(map, e)

\* variant: the entry dropped is the newest one
EvictOldest_DropNewest(map) ==
    IF Len(map) > MaxQueryCache THEN SubSeq(map, 1, Len(map) - 1) ELSE map

\* the size limit at the end of SmartCache.set
EvictOldest(map) == IF Len(map) > MaxQueryCache THEN Tail(map) ELSE map

\* SmartCache.set(options, activities) at clock t: the new all-activities cache
SetAll(all, o, acts, t) ==
    IF IsAllTimeRequest(o) THEN <<AllEntry(acts, t)>> ELSE all

\* variant: the key is built from the date filter alone
SetQuery_DateKeyOnly(map, o, acts, t) ==
    EvictOldest(MapSet(map,
        QueryEntry(QueryKey(DateOpts(o.year, o.month, o.before, o.after)), acts, t)))

\* SmartCache.set(options, activities) at clock t: the new exact-match Map
SetQuery(map, o, acts, t) ==
    EvictOldest(MapSet(map, QueryEntry(QueryKey(o), acts, t)))

\* variant: clear() drops the exact-match entries only
Clear_QueriesOnly ==
    /\ allActivitiesCache' = allActivitiesCache
    /\ queryCache' = <<>>
    /\ UNCHANGED <<now, srcCount, fetchVars, toolVars>>
    /\ UNCHANGED outerVars

\* SmartCache.clear()
Clear ==
    /\ allActivitiesCache' = <<>>
    /\ queryCache' = <<>>
    /\ UNCHANGED <<now, srcCount, fetchVars, toolVars>>
    /\ UNCHANGED outerVars

----------------------------------------------------------------------------
(* fetchActivities *)

\* the filters fetchActivities applies to what the Activity Source returned
SourceFilters(acts, o) ==
    LET byType == IF o.activityType # ""
                  THEN SelectSeq(acts, LAMBDA i : Acts[i].type = o.activityType
                                                  \/ Acts[i].sport_type = o.activityType)
                  ELSE acts
        byManual == IF o.includeManual = "false"
                    THEN SelectSeq(byType, LAMBDA i : ~Acts[i].manual)
                    ELSE byType
    IN  IF o.includePrivate = "false"
        THEN SelectSeq(byManual, LAMBDA i : ~Acts[i].private)
        ELSE byManual

\* what the Activity Source is asked for on a miss
SourceRequest(o, t) ==
    IF o.df
    THEN FetchActivitiesByDateRange(srcCount,
                                    FetchDateRange(o, t, ServerTzAhead).startDate,
                                    FetchDateRange(o, t, ServerTzAhead).endDate)
    ELSE FetchAllActivities(srcCount)

\* variant: an empty cached list counts as a miss (if (cached.length))
FetchBegin_EmptyIsMiss(p, o) ==
    LET cachedActivities == CacheGet(allActivitiesCache, queryCache, o, now)
    IN  /\ opts' = [opts EXCEPT ![p] = o]
        /\ nFetch' = nFetch + 1
        /\ IF cachedActivities.hit /\ cachedActivities.activities # <<>>
           THEN /\ pc' = [pc EXCEPT ![p] = "done"]
                /\ res' = [res EXCEPT ![p] = cachedActivities.activities]
                /\ called' = [called EXCEPT ![p] = FALSE]
           ELSE /\ pc' = [pc EXCEPT ![p] = "await"]
                /\ res' = [res EXCEPT ![p] = SourceRequest(o, now)]
                /\ called' = [called EXCEPT ![p] = TRUE]

\* fetchActivities(options) up to its first await: the cache lookup, and on a
\* miss the request to the Activity Source
FetchBegin(p, o) ==
    LET cachedActivities == CacheGet(allActivitiesCache, queryCache, o, now)
    IN  /\ opts' = [opts EXCEPT ![p] = o]
        /\ nFetch' = nFetch + 1
        /\ IF cachedActivities.hit
           THEN /\ pc' = [pc EXCEPT ![p] = "done"]
                /\ res' = [res EXCEPT ![p] = cachedActivities.activities]
                /\ called' = [called EXCEPT ![p] = FALSE]
           ELSE /\ pc' = [pc EXCEPT ![p] = "await"]
                /\ res' = [res EXCEPT ![p] = SourceRequest(o, now)]
                /\ called' = [called EXCEPT ![p] = TRUE]

\* a direct fetchActivities(options) call
FetchGet(p, o) ==
    /\ pc[p] = "idle"
    /\ hpc[p] = "idle"
    /\ FetchBegin(p, o)
    /\ UNCHANGED <<now, srcCount, cacheVars, toolVars>>
    /\ UNCHANGED outerVars

\* the Activity Source answers: filter, smartCache.set(options, activities), return
FetchReturn(p) ==
    /\ pc[p] = "await"
    /\ LET activities == SourceFilters(res[p], opts[p])
       IN  /\ allActivitiesCache' = SetAll(allActivitiesCache, opts[p], activities, now)
           /\ queryCache' = SetQuery(queryCache, opts[p], activities, now)
           /\ res' = [res EXCEPT ![p] = activities]
    /\ pc' = [pc EXCEPT ![p] = "done"]
    /\ UNCHANGED <<now, srcCount, opts, called, nFetch, toolVars>>
    /\ UNCHANGED outerVars

\* variant: a failed fetch is stored as an empty list before it is thrown
FetchFail_StoresEmpty(p) ==
    /\ pc[p] = "await"
    /\ pc' = [pc EXCEPT ![p] = "failed"]
    /\ res' = [res EXCEPT ![p] = <<>>]
    /\ allActivitiesCache' = SetAll(allActivitiesCache, opts[p], <<>>, now)
    /\ queryCache' = SetQuery(queryCache, opts[p], <<>>, now)
    /\ UNCHANGED <<now, srcCount, opts, called, nFetch, toolVars>>
    /\ UNCHANGED outerVars

\* the Activity Source fails: fetchActivities throws, nothing is stored
FetchFail(p) ==
    /\ pc[p] = "await"
    /\ pc' = [pc EXCEPT ![p] = "failed"]
    /\ res' = [res EXCEPT ![p] = <<>>]
    /\ UNCHANGED <<now, srcCount, cacheVars, opts, called, nFetch, toolVars>>
    /\ UNCHANGED outerVars

\* the caller of a direct fetchActivities call takes the outcome
FetchEnd(p) ==
    /\ pc[p] \in {"done", "failed"}
    /\ hpc[p] = "idle"
    /\ pc' = [pc EXCEPT ![p] = "idle"]
    /\ opts' = [opts EXCEPT ![p] = NoOpts]
    /\ res' = [res EXCEPT ![p] = <<>>]
    /\ called' = [called EXCEPT ![p] = FALSE]
    /\ UNCHANGED <<now, srcCount, cacheVars, nFetch, toolVars>>
    /\ UNCHANGED outerVars

----------------------------------------------------------------------------
(* Environment *)

\* the instants the clock is observed at
ClockPoints == {0, Ttl, Ttl + 1}

Tick(t) ==
    /\ t > now
    /\ now' = t
    /\ UNCHANGED <<srcCount, cacheVars, fetchVars, toolVars>>
    /\ UNCHANGED outerVars

\* an activity is recorded at the Activity Source
AddActivity ==
    /\ srcCount < SourceActs
    /\ srcCount' = srcCount + 1
    /\ UNCHANGED <<now, cacheVars, fetchVars, toolVars>>
    /\ UNCHANGED outerVars

----------------------------------------------------------------------------
(* Tool catalog and argument schemas *)

\* the tools array, by name, in declaration order
Tools == <<
    "get_fastest_activities", "get_longest_activities", "get_activity_laps",
    "find_fastest_laps", "get_enhanced_monthly_stats", "find_time_of_day_patterns",
    "get_day_of_week_analysis", "get_title_word_analysis", "find_activity_gaps",
    "get_monthly_load_progression", "find_double_days" >>

\* the names the catalog lists
ToolNames == {Tools[i] : i \in DOMAIN Tools}

\* variant: the listing drops the last tool
ListTools_Truncated == SubSeq(Tools, 1, Len(Tools) - 1)

\* the ListTools request handler: ({ tools })
ListTools == Tools

\* the names the handler's if-chain compares request.params.name with
HandledNames == {
    "get_longest_activities", "get_fastest_activities", "get_activity_laps",
    "find_fastest_laps", "get_enhanced_monthly_stats", "find_time_of_day_patterns",
    "get_day_of_week_analysis", "get_title_word_analysis", "find_activity_gaps",
    "get_monthly_load_progression", "find_double_days" }

DateFields == {"year", "month", "before", "after"}

FieldNames == {"count", "minDistance", "minGapDays", "activity_ids",
               "target_distance_km", "activity_count", "lap_count"} \cup DateFields

\* the keys of each z.object
SchemaFields(name) ==
    CASE name = "get_longest_activities" -> {"count"} \cup DateFields
      [] name = "get_fastest_activities" -> {"count", "minDistance"} \cup DateFields
      [] name = "get_activity_laps" -> {"activity_ids", "target_distance_km", "count"}
      [] name = "find_fastest_laps" -> {"activity_count", "lap_count", "year"}
      [] name = "find_activity_gaps" -> {"minGapDays"} \cup DateFields
      [] OTHER -> DateFields

\* variant: no key is required
RequiredFields_None(name) == {}

\* keys with neither .optional() nor .default()
RequiredFields(name) == IF name = "get_activity_laps" THEN {"activity_ids"} ELSE {}

\* z.number(), z.string(), z.array(z.number())
KindOf(f) ==
    IF f \in {"before", "after"} THEN "str"
    ELSE IF f = "activity_ids" THEN "arr"
    ELSE "num"

\* argument values: a number, a date string (as its day), an array of numbers
Absent == [kind |-> "absent", n |-> 0, ids |-> <<>>]
Num(n) == [kind |-> "num", n |-> n, ids |-> <<>>]
Str(d) == [kind |-> "str", n |-> d, ids |-> <<>>]
Arr(s) == [kind |-> "arr", n |-> 0, ids |-> s]

\* a string new Date() cannot parse (Invalid Date)
InvalidDate == 0 - 1

\* schema defaults
CountDefault == 5
MinDistanceDefault == 1
MinGapDaysDefault == 14
\* 1.609 km, in metres
TargetDistanceDefault == 1609
ActivityCountDefault == 5
LapCountDefault == 5

\* .default(v); an .optional() key stays undefined
DefaultOf(f) ==
    CASE f = "count" -> Num(CountDefault)
      [] f = "minDistance" -> Num(MinDistanceDefault)
      [] f = "minGapDays" -> Num(MinGapDaysDefault)
      [] f = "target_distance_km" -> Num(TargetDistanceDefault)
      [] f = "activity_count" -> Num(ActivityCountDefault)
      [] f = "lap_count" -> Num(LapCountDefault)
      [] OTHER -> Absent

\* request.params.arguments: given is FALSE when the request carries none
Blank == [f \in FieldNames |-> Absent]
NoArgs == [given |-> FALSE, f |-> Blank]
Args(fields) == [given |-> TRUE, f |-> fields]

\* the keys of the argument object the schema rejects
Offending(name, a) ==
    {f \in SchemaFields(name) :
        IF a.f[f].kind = "absent" THEN f \in RequiredFields(name)
        ELSE a.f[f].kind # KindOf(f)}

\* Schema.parse(args): unknown keys are stripped, omitted keys take their default
Parse(name, a) ==
    [ok |-> a.given /\ Offending(name, a) = {},
     params |-> [f \in FieldNames |->
                    IF f \notin SchemaFields(name) THEN Absent
                    ELSE IF a.f[f].kind = "absent" THEN DefaultOf(f)
                    ELSE a.f[f]]]

\* if (params.x): undefined and 0 are falsy
Truthy(v) == v.kind # "absent" /\ ~(v.kind = "num" /\ v.n = 0)

OptVal(v) == IF Truthy(v) THEN v.n ELSE None

\* the FetchOptions a handler branch passes to fetchActivities
BuildOptions(name, ps) ==
    IF name = "find_fastest_laps"
    THEN IF Truthy(ps["year"])
         THEN DateOpts(ps["year"].n, None, None, None)
         ELSE NoOpts
    ELSE IF \E f \in DateFields : Truthy(ps[f])
         THEN DateOpts(OptVal(ps["year"]), OptVal(ps["month"]),
                       OptVal(ps["before"]), OptVal(ps["after"]))
         ELSE NoOpts

\* endDate / startDate is an Invalid Date: toISOString() throws RangeError
HasInvalidDate(o) == o.df /\ (o.before = InvalidDate \/ o.after = InvalidDate)

----------------------------------------------------------------------------
(* analyze-runs *)

MinRunMinutes == 4
MinRunMiles == 1
\* METERS_TO_MILES = 0.000621371, as miles * 10^9 per metre
MetersToMilesE9 == 621371
E9 == 1000000000
E7 == 10000000

IsRunType(t) == t \in {"Run", "VirtualRun", "TrailRun"}

\* parseFloat((distance * METERS_TO_MILES).toFixed(2)), in hundredths of a mile
DistanceMiles100(i) == (Acts[i].distance * MetersToMilesE9 + E7 \div 2) \div E7

\* pace_seconds = moving_time / distanceMiles, compared without dividing
PaceBefore(a, b) ==
    Acts[a].moving_time * Acts[b].distance < Acts[b].moving_time * Acts[a].distance

\* whole days from 2000-01-01 to the date d
DayNumber(d) ==
    LET y == YearOf(d) - 1
        before == [m \in 1..12 |->
                      IF m = 1 THEN 0
                      ELSE 31 * (m - 1)
                           - (IF m > 2 THEN (IF IsLeap(YearOf(d)) THEN 2 ELSE 3) ELSE 0)
                           - Cardinality({k \in {4, 6, 9, 11} : k < m})]
    IN  365 * (YearOf(d) - 2000)
        + (y \div 4 - y \div 100 + y \div 400) - (1999 \div 4 - 1999 \div 100 + 1999 \div 400)
        + before[MonthOf(d)] + DayOf(d) - 1

\* new Date(run.date).getTime(), in hours since 2000-01-01T00:00
StartTime(i) == DayNumber(Acts[i].day) * 24 + Acts[i].hour

\* the comparators: comparator(a, b) < 0
Before(order, a, b) ==
    CASE order = "date_desc" -> StartTime(a) > StartTime(b)
      [] order = "date_asc" -> StartTime(a) < StartTime(b)
      [] order = "pace_asc" -> PaceBefore(a, b)
      [] order = "distance_desc" -> DistanceMiles100(a) > DistanceMiles100(b)

\* Array.prototype.sort with a comparator: stable insertion
RECURSIVE InsertBy(_, _, _)
InsertBy(order, s, x) ==
    IF s = <<>> THEN <<x>>
    ELSE IF Before(order, x, Head(s)) THEN <<x>> \o s
    ELSE <<Head(s)>> \o InsertBy(order, Tail(s), x)

RECURSIVE SortBy(_, _)
SortBy(order, s) ==
    IF s = <<>> THEN <<>>
    ELSE InsertBy(order, SortBy(order, SubSeq(s, 1, Len(s) - 1)), s[Len(s)])

\* Array.prototype.slice(0, n): a negative n counts from the end
Slice(s, n) ==
    LET end == IF n < 0 THEN (IF Len(s) + n < 0 THEN 0 ELSE Len(s) + n)
               ELSE IF n < Len(s) THEN n ELSE Len(s)
    IN  SubSeq(s, 1, end)

\* variant: only the type field is looked at
AnalyzeRuns_TypeOnly(acts) ==
    SortBy("date_desc",
           SelectSeq(acts, LAMBDA i :
               /\ IsRunType(Acts[i].type)
               /\ Acts[i].moving_time >= MinRunMinutes * 60
               /\ Acts[i].distance * MetersToMilesE9 >= MinRunMiles * E9))

\* analyzeRuns(activities).runs: runs of at least 4 minutes and 1 mile, newest first
AnalyzeRuns(acts) ==
    SortBy("date_desc",
           SelectSeq(acts, LAMBDA i :
               /\ (IsRunType(Acts[i].type) \/ IsRunType(Acts[i].sport_type))
               /\ Acts[i].moving_time >= MinRunMinutes * 60
               /\ Acts[i].distance * MetersToMilesE9 >= MinRunMiles * E9))

\* getFastestRuns(runs, count, minDistance)
GetFastestRuns(runs, count, minDistance) ==
    Slice(SortBy("pace_asc",
                 SelectSeq(runs, LAMBDA i : DistanceMiles100(i) >= minDistance * 100)),
          count)

\* getLongestRuns(runs, count)
GetLongestRuns(runs, count) == Slice(SortBy("distance_desc", runs), count)

\* the ActivityGap pushed for two runs adjacent in date order
Gap(cur, next, diffDays) ==
    [lastRunBefore |-> cur, firstRunAfter |-> next, daysOff |-> diffDays]

\* Math.floor((nextDate.getTime() - currentDate.getTime()) / (1000 * 60 * 60 * 24))
DiffDays(cur, next) == (StartTime(next) - StartTime(cur)) \div 24

\* variant: only a gap longer than minGapDays is reported
GapReported_Strict(diffDays, minGapDays) == diffDays > minGapDays

\* if (diffDays >= minGapDays)
GapReported(diffDays, minGapDays) == diffDays >= minGapDays

\* findActivityGaps(runs, minGapDays): a copy of runs sorted by ascending date,
\* then one pass over its adjacent pairs
FindActivityGaps(runs, minGapDays) ==
    LET sortedRuns == SortBy("date_asc", runs)
        pairs == [i \in 1..(Len(sortedRuns) - 1) |->
                     Gap(sortedRuns[i], sortedRuns[i + 1],
                         DiffDays(sortedRuns[i], sortedRuns[i + 1]))]
    IN  SelectSeq(pairs, LAMBDA g : GapReported(g.daysOff, minGapDays))

\* the laps the Activity Source holds (StravaLap), by activity
Laps == <<
    [id |-> 1, activity |-> 2, distance |-> 1609, moving_time |-> 520],
    [id |-> 2, activity |-> 2, distance |-> 1000, moving_time |-> 300],
    [id |-> 3, activity |-> 3, distance |-> 1600, moving_time |-> 480],
    [id |-> 4, activity |-> 3, distance |-> 400, moving_time |-> 100],
    [id |-> 5, activity |-> 1, distance |-> 3400, moving_time |-> 500] >>

RECURSIVE UpTo(_)
UpTo(n) == IF n = 0 THEN <<>> ELSE Append(UpTo(n - 1), n)

\* stravaClient.fetchActivityLaps(activityId), when it succeeds
FetchActivityLaps(activityId) ==
    SelectSeq(UpTo(Len(Laps)), LAMBDA l : Laps[l].activity = activityId)

\* parseFloat(distanceMiles.toFixed(2)) of a lap, in hundredths of a mile
LapMiles100(l) == (Laps[l].distance * MetersToMilesE9 + E7 \div 2) \div E7

Abs(x) == IF x < 0 THEN 0 - x ELSE x

\* the laps within 5% of the target distance (target in metres):
\* |distance_miles - targetMiles| / targetMiles <= 0.05, in 10^-9 miles
TargetLaps(laps, target) ==
    SelectSeq(laps, LAMBDA l :
        /\ target > 0
        /\ Abs(LapMiles100(l) * E7 - target * MetersToMilesE9)
               <= (target * MetersToMilesE9) \div 20)

\* lap pace_seconds ascending, compared without dividing
LapPaceBefore(a, b) ==
    Laps[a].moving_time * Laps[b].distance < Laps[b].moving_time * Laps[a].distance

RECURSIVE InsertLap(_, _)
InsertLap(s, x) ==
    IF s = <<>> THEN <<x>>
    ELSE IF LapPaceBefore(x, Head(s)) THEN <<x>> \o s
    ELSE <<Head(s)>> \o InsertLap(Tail(s), x)

\* allLaps.sort((a, b) => a.pace_seconds - b.pace_seconds)
RECURSIVE SortLaps(_)
SortLaps(s) ==
    IF s = <<>> THEN <<>>
    ELSE InsertLap(SortLaps(SubSeq(s, 1, Len(s) - 1)), s[Len(s)])

\* what a handler branch computes from the fetched activities
Analyse(name, ps, acts) ==
    LET runs == AnalyzeRuns(acts)
    IN  CASE name = "get_longest_activities" -> GetLongestRuns(runs, ps["count"].n)
          [] name = "get_fastest_activities" ->
                 GetFastestRuns(runs, ps["count"].n, ps["minDistance"].n)
          [] name = "find_fastest_laps" ->
                 GetFastestRuns(runs, ps["activity_count"].n, MinDistanceDefault)
          [] OTHER -> runs

----------------------------------------------------------------------------
(* StravaClient: the conversation side *)

\* callers of the singleton client (getMCPClient)
Callers == {"u1", "u2"}

\* the question each caller asks
QuestionOf(q) == IF q = "u1" THEN "What are my fastest runs?" ELSE "How far did I run?"

\* content blocks of a model response
Text(t) == [type |-> "text", text |-> t, id |-> "", name |-> ""]
ToolUse(i, n) == [type |-> "tool_use", text |-> "", id |-> i, name |-> n]

\* responses with no tool_use block
FinalResponses == {
    <<Text("Your fastest run was on 2024-02-10.")>>,
    <<>>,
    <<Text("")>>,
    <<Text("Summary"), Text("Details")>> }

\* responses with tool_use blocks
ToolResponses == {
    <<ToolUse("tu1", "get_fastest_activities")>>,
    <<Text("Let me look."), ToolUse("tu1", "find_fastest_laps"),
      Text("Then the gaps."), ToolUse("tu2", "no_such_tool")>> }

\* what awaiting mcp.callTool can give: a result, a result with isError, a
\* result with empty content, or a rejection
CallOutcomes == {"ok", "is_error", "empty", "raise"}

\* assistantMessage.content.filter((c) => c.type === "tool_use")
ToolUsesOf(content) == SelectSeq(content, LAMBDA c : c.type = "tool_use")

\* textContent?.text || "No response generated", textContent the first text block
AnswerOf(content) ==
    LET texts == SelectSeq(content, LAMBDA c : c.type = "text")
    IN  IF texts = <<>> THEN "No response generated"
        ELSE IF texts[1].text = "" THEN "No response generated"
        ELSE texts[1].text

\* entries of the messages array
UserQuestion(t) == [role |-> "user", text |-> t, blocks |-> <<>>, results |-> <<>>]
AssistantTurn(content) ==
    [role |-> "assistant", text |-> "", blocks |-> content, results |-> <<>>]
UserResults(rs) == [role |-> "user", text |-> "", blocks |-> <<>>, results |-> rs]

\* the tool_result pushed for one tool use
ToolResult(toolUse, outcome) ==
    [tool_use_id |-> toolUse.id,
     content |-> CASE outcome = "ok" -> "result of " \o toolUse.name
                   [] outcome = "is_error" -> "error payload of " \o toolUse.name
                   [] outcome = "empty" -> "No result"
                   [] outcome = "raise" -> "Error: call failed",
     is_error |-> outcome \in {"is_error", "raise"}]

\* private maxReconnectAttempts = 3
MaxReconnectAttempts == 3
\* private reconnectDelay = 1000
ReconnectDelay == 1000

\* what getInsight (or connect) gave its caller
NoPayload == [status |-> "none", answer |-> "", error |-> "", supportingActivities |-> <<>>]
Answer(a) == [status |-> "returned", answer |-> a, error |-> "", supportingActivities |-> <<>>]
Thrown(e) == [status |-> "threw", answer |-> "", error |-> e, supportingActivities |-> <<>>]

\* the analytics function called and its arguments
Call(name, count, minDistance, minGapDays) ==
    [name |-> name, count |-> count, minDistance |-> minDistance,
     minGapDays |-> minGapDays]
NoCall == Call("", 0, 0, 0)

\* the question field of a request body: its typeof, and the string or the
\* number it is
Question(kind, text, n) == [kind |-> kind, text |-> text, n |-> n]

\* no request is being handled
NoBody == Question("none", "", 0)

\* what the insight endpoint answered: the status and the JSON body sent
NoResponse == [status |-> 0, message |-> "", details |-> "", payload |-> NoPayload]

----------------------------------------------------------------------------
NoParams == Blank
NoOut == [returned |-> FALSE, raised |-> FALSE, isError |-> FALSE, error |-> "",
          tool |-> "", arguments |-> NoArgs, hasArguments |-> FALSE, result |-> <<>>]

Init ==
    /\ now = 0
    /\ srcCount = InitialActs
    /\ allActivitiesCache = <<>>
    /\ queryCache = <<>>
    /\ pc = [p \in Procs |-> "idle"]
    /\ opts = [p \in Procs |-> NoOpts]
    /\ res = [p \in Procs |-> <<>>]
    /\ called = [p \in Procs |-> FALSE]
    /\ nFetch = 0
    /\ hpc = [p \in Procs |-> "idle"]
    /\ tool = [p \in Procs |-> ""]
    /\ targs = [p \in Procs |-> NoArgs]
    /\ params = [p \in Procs |-> NoParams]
    /\ lapIdx = [p \in Procs |-> 0]
    /\ allLaps = [p \in Procs |-> <<>>]
    /\ lapCalls = [p \in Procs |-> 0]
    /\ lapIds = [p \in Procs |-> <<>>]
    /\ lapErrs = [p \in Procs |-> 0]
    /\ threw = [p \in Procs |-> ""]
    /\ nTool = 0
    /\ isConnected = FALSE
    /\ reconnectAttempts = 0
    /\ clientTools = <<>>
    /\ transports = 0
    /\ transportOpen = FALSE
    /\ listCalls = 0
    /\ nCalls = 0
    /\ gpc = [q \in Callers |-> "idle"]
    /\ question = [q \in Callers |-> ""]
    /\ attemptsInCall = [q \in Callers |-> 0]
    /\ waited = [q \in Callers |-> <<>>]
    /\ delay = [q \in Callers |-> 0]
    /\ closed = [q \in Callers |-> ""]
    /\ qpc = [q \in Callers |-> "idle"]
    /\ messages = [q \in Callers |-> <<>>]
    /\ assistantMessage = [q \in Callers |-> <<>>]
    /\ toolResults = [q \in Callers |-> <<>>]
    /\ toolIdx = [q \in Callers |-> 0]
    /\ dispatched = [q \in Callers |-> <<>>]
    /\ rounds = [q \in Callers |-> 0]
    /\ payload = [q \in Callers |-> NoPayload]
    /\ out = [p \in Procs |-> NoOut]
    /\ apc = "idle"
    /\ givenActivities = <<>>
    /\ givenRuns = <<>>
    /\ fn = NoCall
    /\ result = <<>>
    /\ body = [q \in Callers |-> NoBody]
    /\ response = [q \in Callers |-> NoResponse]

\* requests that call fetchActivities against the shared cache
Next ==
    \/ \E p \in Procs, o \in QueryShapes : nFetch < MaxFetches /\ FetchGet(p, o)
    \/ \E p \in Procs : FetchReturn(p)
    \/ \E p \in Procs : FetchFail(p)
    \/ \E p \in Procs : FetchEnd(p)
    \/ \E t \in ClockPoints : Tick(t)
    \/ AddActivity
    \/ Clear

Spec == Init /\ [][Next]_vars

----------------------------------------------------------------------------
(* Properties of the range cache *)

\* what the claims call a date bound: a year, month, before or after is given
HasDateBound(o) ==
    o.df /\ (o.year # None \/ o.month # None \/ o.before # None \/ o.after # None)

\* all-time as the specification words it: no date bound, or an after date at or
\* before the epoch floor as the only bound
SpecAllTime(o) ==
    \/ ~HasDateBound(o)
    \/ o.after # None /\ o.after <= EpochFloor
       /\ o.before = None /\ o.year = None /\ o.month = None

\* record i passes every filter of o at clock t
Passes(i, o, t) ==
    /\ o.df => /\ Acts[i].day >= GetDateRangeFromFilter(o, t).startDate
               /\ Acts[i].day <= GetDateRangeFromFilter(o, t).endDate
    /\ o.activityType # "" =>
           (Acts[i].type = o.activityType \/ Acts[i].sport_type = o.activityType)
    /\ o.includeManual = "false" => ~Acts[i].manual
    /\ o.includePrivate = "false" => ~Acts[i].private

Filtered(acts, o, t) == SelectSeq(acts, LAMBDA i : Passes(i, o, t))

\* the all-activities entry exists and its age is at most a
SupersetWithin(all, t, a) == all # <<>> /\ t - all[1].timestamp <= a

\* the exact-match entries stored under the fingerprint of o, of age at most a
ExactWithin(map, o, t, a) ==
    SelectSeq(map, LAMBDA e : e.key = QueryKey(o) /\ t - e.timestamp <= a)

GetNow(o) == CacheGet(allActivitiesCache, queryCache, o, now)

\* C1 as stated: for every query and every prior cache state, get(q) right after
\* set(q, L) returns exactly L
C1_GetAfterSetReturnsList ==
    [][\A p \in Procs :
          FetchReturn(p) =>
              LET g == CacheGet(allActivitiesCache', queryCache', opts[p], now')
              IN  g.hit /\ g.activities = res'[p]]_vars

\* C1 amended: get(q) right after set(q, L) is a hit; it returns L when q is
\* classified all-time or no all-activities entry of age <= ttl exists, and
\* otherwise it returns the all-activities list filtered by q, not L
C1_GetAfterSet ==
    [][\A p \in Procs :
          FetchReturn(p) =>
              LET g == CacheGet(allActivitiesCache', queryCache', opts[p], now')
              IN  /\ g.hit
                  /\ IF IsAllTimeRequest(opts[p])
                        \/ ~SupersetWithin(allActivitiesCache', now', Ttl)
                     THEN g.activities = res'[p]
                     ELSE g.activities =
                              Filtered(allActivitiesCache'[1].activities, opts[p], now')]_vars

\* a date-bounded request stored its list while another request's all-activities
\* entry is live, and get answers with a different list
C1_Witness ==
    \E p \in Procs :
        /\ pc[p] = "done" /\ called[p]
        /\ ~IsAllTimeRequest(opts[p])
        /\ MapGet(queryCache, QueryKey(opts[p])) # <<>>
        /\ MapGet(queryCache, QueryKey(opts[p]))[1].activities = res[p]
        /\ GetNow(opts[p]).hit
        /\ GetNow(opts[p]).activities # res[p]

\* C2: with an all-activities entry stored less than ttl ago, a fetchActivities
\* that carries a date bound returns that entry's records passing the request's
\* range, type and visibility filters (also when none passes) and does not
\* invoke the Activity Source
C2_SubsetServing ==
    [][\A p \in Procs : \A o \in QueryShapes :
          (/\ FetchGet(p, o)
           /\ HasDateBound(o)
           /\ allActivitiesCache # <<>>
           /\ now - allActivitiesCache[1].timestamp < Ttl)
          => /\ pc'[p] = "done"
             /\ ~called'[p]
             /\ res'[p] = Filtered(allActivitiesCache[1].activities, o, now)]_vars

\* a date-bounded request was answered from a non-empty all-activities entry
\* with the empty list, and the Activity Source was not invoked
C2_Witness ==
    \E p \in Procs :
        /\ pc[p] = "done" /\ ~called[p]
        /\ HasDateBound(opts[p]) /\ ~IsAllTimeRequest(opts[p])
        /\ res[p] = <<>>
        /\ allActivitiesCache # <<>>
        /\ allActivitiesCache[1].activities # <<>>
        /\ now - allActivitiesCache[1].timestamp < Ttl

\* get(o) hits exactly when an entry it may use has age at most a
ServedWithin(o, a) ==
    GetNow(o).hit <=>
        \/ SupersetWithin(allActivitiesCache, now, a)
        \/ ExactWithin(queryCache, o, now, a) # <<>>

\* C3 as stated: an entry is served only while now - timestamp < ttl, and is
\* absent from now - timestamp = ttl on
C3_ServedOnlyBelowTtl == \A o \in QueryShapes : ServedWithin(o, Ttl - 1)

\* C3 amended: an entry is served while now - timestamp <= ttl and is treated
\* as absent once now - timestamp > ttl
C3_ServedUpToTtl == \A o \in QueryShapes : ServedWithin(o, Ttl)

\* a request was answered from entries whose age is exactly ttl, and one more
\* millisecond later the same entries are stored but get misses
C3_Witness ==
    \/ /\ now = Ttl
       /\ allActivitiesCache # <<>> /\ allActivitiesCache[1].timestamp = 0
       /\ \E p \in Procs : pc[p] = "done" /\ ~called[p] /\ GetNow(opts[p]).hit
    \/ /\ now = Ttl + 1
       /\ allActivitiesCache # <<>> /\ allActivitiesCache[1].timestamp = 0
       /\ \E p \in Procs : pc[p] = "await" /\ ~GetNow(opts[p]).hit

\* C5 as stated: a fetch whose options carry any date bound other than a lone
\* after date at or before 2000-01-01 never writes the all-activities entry
C5_OnlyAllTimeWritesSuperset ==
    [][\A p \in Procs :
          (FetchReturn(p) /\ ~SpecAllTime(opts[p]))
          => allActivitiesCache' = allActivitiesCache]_vars

\* C6: get answers from the all-activities entry, filtered by the query's date
\* range, type, manual and private flags, when that entry is live; else from
\* the live exact-match entry of the fingerprint; else it misses
C6_GetPrecedence ==
    \A o \in QueryShapes :
        GetNow(o) =
            IF SupersetWithin(allActivitiesCache, now, Ttl)
            THEN Hit(Filtered(allActivitiesCache[1].activities, o, now))
            ELSE IF ExactWithin(queryCache, o, now, Ttl) # <<>>
            THEN Hit(ExactWithin(queryCache, o, now, Ttl)[1].activities)
            ELSE Miss

\* a live all-activities entry and a live exact-match entry of some query hold
\* different lists, and a request for that query got the filtered superset
C6_Witness ==
    \E p \in Procs :
        /\ pc[p] = "done" /\ ~called[p]
        /\ SupersetWithin(allActivitiesCache, now, Ttl)
        /\ ExactWithin(queryCache, opts[p], now, Ttl) # <<>>
        /\ ExactWithin(queryCache, opts[p], now, Ttl)[1].activities # res[p]
        /\ res[p] = Filtered(allActivitiesCache[1].activities, opts[p], now)

AllMiss == \A o \in QueryShapes : ~GetNow(o).hit

\* C7: right after clear() get misses for every query, and keeps missing until
\* the next set
C7_ClearThenMiss ==
    [][/\ Clear => AllMiss'
       /\ (AllMiss /\ ~(\E p \in Procs : FetchReturn(p))) => AllMiss']_vars

\* the cache is empty although a request of this run has stored its list
C7_Witness ==
    /\ allActivitiesCache = <<>>
    /\ queryCache = <<>>
    /\ \E p \in Procs : pc[p] = "done" /\ called[p]
    /\ \E p \in Procs : pc[p] = "await"

KeysDistinct(map) ==
    \A i, j \in 1..Len(map) : map[i].key = map[j].key => i = j

\* C8: every set overwrites the fingerprint's exact-match entry (and the
\* all-activities entry, for a request classified all-time) with the whole list
\* of the request that wrote last; the Map holds one entry per fingerprint, and
\* after two requests of one fingerprint have both fetched and stored, the
\* entry is the list of one of them
C8_LastWriteWins ==
    [][/\ \A p \in Procs :
              FetchReturn(p) =>
                  /\ MapGet(queryCache', QueryKey(opts[p]))
                         = <<QueryEntry(QueryKey(opts[p]), res'[p], now)>>
                  /\ IsAllTimeRequest(opts[p]) =>
                         /\ allActivitiesCache' # <<>>
                         /\ allActivitiesCache'[1].activities = res'[p]
                         /\ allActivitiesCache'[1].timestamp = now
       /\ KeysDistinct(queryCache')
       /\ \A p, q \in Procs :
              (/\ p # q
               /\ pc'[p] = "done" /\ pc'[q] = "done"
               /\ called'[p] /\ called'[q]
               /\ opts'[p] = opts'[q]
               /\ MapGet(queryCache', QueryKey(opts'[p])) # <<>>)
              => MapGet(queryCache', QueryKey(opts'[p]))[1].activities
                     \in {res'[p], res'[q]}]_vars

\* two requests of one fingerprint both missed, both invoked the Activity
\* Source and stored different lists; the entry holds one of them
C8_Witness ==
    \E p, q \in Procs :
        /\ p # q
        /\ pc[p] = "done" /\ pc[q] = "done"
        /\ called[p] /\ called[q]
        /\ opts[p] = opts[q]
        /\ res[p] # res[q]
        /\ Len(MapGet(queryCache, QueryKey(opts[p]))) = 1
        /\ MapGet(queryCache, QueryKey(opts[p]))[1].activities = res[q]

----------------------------------------------------------------------------
(* Runs that fill the exact-match Map past its bound *)

YearOpts(y) == DateOpts(y, None, None, None)

FirstEvictYear == YearOf(EpochFloor) + 1

\* the latest year a request of the run has asked for
HighYear ==
    LET used == {FirstEvictYear - 1}
                \cup {queryCache[i].key[3] : i \in 1..Len(queryCache)}
                \cup {opts[p].year : p \in {q \in Procs : pc[q] # "idle"}}
    IN  CHOOSE y \in used : \A z \in used : z <= y

\* a year not asked for yet, the first year asked for, or the latest one
EvictChoices == {YearOpts(HighYear + 1), YearOpts(FirstEvictYear), YearOpts(HighYear)}

NextEvict ==
    \/ \E p \in Procs, o \in EvictChoices :
           /\ nFetch < MaxQueryCache + EvictExtra
           /\ o.year >= FirstEvictYear
           /\ \A q \in Procs \ {p} : pc[q] = "idle" \/ opts[q] = o
           /\ FetchGet(p, o)
    \/ \E p \in Procs : FetchReturn(p)
    \/ \E p \in Procs : FetchEnd(p)

SpecEvict == Init /\ [][NextEvict]_vars

Keys(map) == [i \in 1..Len(map) |-> map[i].key]

\* C4: the exact-match Map never holds more than 50 entries; a set of a key
\* already present keeps the keys and their order, a set of a new key is added
\* last, and when that makes 51 entries exactly the first entry in insertion
\* order is removed and the others are kept as they were
C4_EvictsOldest ==
    [][/\ Len(queryCache') <= MaxQueryCache
       /\ \A p \in Procs :
              FetchReturn(p) =>
                  LET k == QueryKey(opts[p])
                      n == Len(queryCache)
                  IN  IF \E i \in 1..n : queryCache[i].key = k
                      THEN Keys(queryCache') = Keys(queryCache)
                      ELSE IF n < MaxQueryCache
                      THEN /\ Keys(queryCache') = Append(Keys(queryCache), k)
                           /\ SubSeq(queryCache', 1, n) = queryCache
                      ELSE /\ Keys(queryCache') = Append(Tail(Keys(queryCache)), k)
                           /\ SubSeq(queryCache', 1, n - 1) = Tail(queryCache)]_vars

\* 51 distinct fingerprints were stored by 51 fetches: 50 entries are left, and
\* the one missing is the first one stored
C4_Witness ==
    /\ nFetch = MaxQueryCache + 1
    /\ \A p \in Procs : pc[p] = "idle"
    /\ Len(queryCache) = MaxQueryCache
    /\ \A i \in 1..MaxQueryCache :
           queryCache[i].key = QueryKey(YearOpts(FirstEvictYear + i))

----------------------------------------------------------------------------
(* The CallTool request handler *)

\* the argument objects the requests of the model carry
ArgPool == <<
    NoArgs,
    Args(Blank),
    Args([Blank EXCEPT !["year"] = Num(2024)]),
    Args([Blank EXCEPT !["count"] = Num(1), !["year"] = Num(2024),
                       !["after"] = Str(MkDate(1999, 6, 1))]),
    Args([Blank EXCEPT !["activity_ids"] = Arr(<<2, 3>>)]),
    Args([Blank EXCEPT !["activity_ids"] = Arr(<<3>>), !["count"] = Num(1),
                       !["target_distance_km"] = Num(1000)]),
    Args([Blank EXCEPT !["count"] = Str(3)]),
    Args([Blank EXCEPT !["after"] = Str(InvalidDate)]),
    Args([Blank EXCEPT !["activity_count"] = Num(1), !["lap_count"] = Num(1),
                       !["minGapDays"] = Num(7)]) >>

\* the names the requests of the model carry
RequestNames == ToolNames \cup {"no_such_tool"}

\* the argument objects (indices into ArgPool) each name is requested with
ArgChoices(name) ==
    CASE name = "get_longest_activities" -> {1, 2, 3, 4, 7, 8}
      [] name = "get_fastest_activities" -> {2, 4}
      [] name = "get_activity_laps" -> {2, 5, 6}
      [] name = "find_fastest_laps" -> {2, 3, 9}
      [] name = "find_activity_gaps" -> {8, 9}
      [] name = "no_such_tool" -> {1, 3}
      [] OTHER -> {3}

\* the outcomes of one lap-loop iteration
LapOutcomes == {"ok", "fetch_failed", "analysis_failed"}

\* JSON.stringify({error, tool, arguments}): an undefined arguments is left out
ErrorResult(name, a, err) ==
    [returned |-> TRUE, raised |-> FALSE, isError |-> TRUE, error |-> err,
     tool |-> name, arguments |-> a, hasArguments |-> a.given, result |-> <<>>]

OkResult(r) ==
    [returned |-> TRUE, raised |-> FALSE, isError |-> FALSE, error |-> "",
     tool |-> "", arguments |-> NoArgs, hasArguments |-> FALSE, result |-> r]

\* variant: the catch block rethrows
Catch_Rethrow(p, name, a, err) ==
    /\ threw' = [threw EXCEPT ![p] = err]
    /\ hpc' = [hpc EXCEPT ![p] = "returned"]
    /\ out' = [out EXCEPT ![p] = [ErrorResult(name, a, err) EXCEPT !.raised = TRUE,
                                                                   !.isError = FALSE]]

\* catch (error): the error result
Catch(p, name, a, err) ==
    /\ threw' = [threw EXCEPT ![p] = err]
    /\ hpc' = [hpc EXCEPT ![p] = "returned"]
    /\ out' = [out EXCEPT ![p] = ErrorResult(name, a, err)]

\* the handler from its entry to its first await (or to its return)
ToolCall(p, name, a) ==
    /\ hpc[p] = "idle"
    /\ pc[p] = "idle"
    /\ tool' = [tool EXCEPT ![p] = name]
    /\ targs' = [targs EXCEPT ![p] = a]
    /\ nTool' = nTool + 1
    /\ LET parsed == Parse(name, a)
           o == BuildOptions(name, parsed.params)
       IN  IF name \notin HandledNames
           THEN /\ Catch(p, name, a, "Unknown tool")
                /\ UNCHANGED <<params, lapIds, fetchVars>>
           ELSE IF ~parsed.ok
           THEN /\ Catch(p, name, a, "ZodError")
                /\ UNCHANGED <<params, lapIds, fetchVars>>
           ELSE IF name = "get_activity_laps"
           THEN /\ params' = [params EXCEPT ![p] = parsed.params]
                /\ lapIds' = [lapIds EXCEPT ![p] = parsed.params["activity_ids"].ids]
                /\ hpc' = [hpc EXCEPT ![p] = "laps"]
                /\ UNCHANGED <<threw, out, fetchVars>>
           ELSE IF HasInvalidDate(o)
           THEN /\ params' = [params EXCEPT ![p] = parsed.params]
                /\ Catch(p, name, a, "RangeError")
                /\ UNCHANGED <<lapIds, fetchVars>>
           ELSE /\ params' = [params EXCEPT ![p] = parsed.params]
                /\ FetchBegin(p, o)
                /\ hpc' = [hpc EXCEPT ![p] = "fetching"]
                /\ UNCHANGED <<threw, out, lapIds>>
    /\ UNCHANGED <<now, srcCount, cacheVars, lapIdx, allLaps, lapCalls, lapErrs>>
    /\ UNCHANGED outerVars

\* the handler after fetchActivities settled: analysis, then the result or the lap loop
HandlerResume(p, analysisOk) ==
    /\ hpc[p] = "fetching"
    /\ pc[p] \in {"done", "failed"}
    /\ pc' = [pc EXCEPT ![p] = "idle"]
    /\ opts' = [opts EXCEPT ![p] = NoOpts]
    /\ res' = [res EXCEPT ![p] = <<>>]
    /\ called' = [called EXCEPT ![p] = FALSE]
    /\ IF pc[p] = "failed"
       THEN /\ Catch(p, tool[p], targs[p], "Upstream error")
            /\ UNCHANGED lapIds
       ELSE IF ~analysisOk
       THEN /\ Catch(p, tool[p], targs[p], "Analysis error")
            /\ UNCHANGED lapIds
       ELSE IF tool[p] = "find_fastest_laps"
       THEN /\ lapIds' = [lapIds EXCEPT ![p] = Analyse(tool[p], params[p], res[p])]
            /\ hpc' = [hpc EXCEPT ![p] = "laps"]
            /\ UNCHANGED <<threw, out>>
       ELSE /\ hpc' = [hpc EXCEPT ![p] = "returned"]
            /\ out' = [out EXCEPT ![p] = OkResult(Analyse(tool[p], params[p], res[p]))]
            /\ UNCHANGED <<threw, lapIds>>
    /\ UNCHANGED <<now, srcCount, cacheVars, nFetch, tool, targs, params, lapIdx,
                   allLaps, lapCalls, lapErrs, nTool>>
    /\ UNCHANGED outerVars

\* variant: a failed iteration reaches the handler's catch
LapCatch_Abort(p) ==
    /\ lapErrs' = [lapErrs EXCEPT ![p] = lapErrs[p] + 1]
    /\ Catch(p, tool[p], targs[p], "Lap error")
    /\ UNCHANGED allLaps

\* the catch inside the loop: log, go on with the next activity
LapCatch(p) ==
    /\ lapErrs' = [lapErrs EXCEPT ![p] = lapErrs[p] + 1]
    /\ UNCHANGED <<allLaps, hpc, threw, out>>

\* the laps one successful iteration pushes onto allLaps
LapsKept(p, activityId) ==
    IF tool[p] = "get_activity_laps"
    THEN TargetLaps(FetchActivityLaps(activityId), params[p]["target_distance_km"].n)
    ELSE FetchActivityLaps(activityId)

\* one iteration of the lap loop: fetchActivityLaps(id) inside its own try/catch
LapFetch(p, outcome) ==
    /\ hpc[p] = "laps"
    /\ lapIdx[p] < Len(lapIds[p])
    /\ lapIdx' = [lapIdx EXCEPT ![p] = lapIdx[p] + 1]
    /\ lapCalls' = [lapCalls EXCEPT ![p] = lapCalls[p] + 1]
    /\ IF outcome = "ok"
       THEN /\ allLaps' = [allLaps EXCEPT ![p] = allLaps[p] \o LapsKept(p, lapIds[p][lapIdx[p] + 1])]
            /\ UNCHANGED <<lapErrs, hpc, threw, out>>
       ELSE LapCatch(p)
    /\ UNCHANGED <<now, srcCount, cacheVars, fetchVars, tool, targs, params,
                   lapIds, nTool>>
    /\ UNCHANGED outerVars

\* after the loop: sort, slice, return
LapFinish(p) ==
    /\ hpc[p] = "laps"
    /\ lapIdx[p] = Len(lapIds[p])
    /\ hpc' = [hpc EXCEPT ![p] = "returned"]
    /\ out' = [out EXCEPT ![p] =
                 OkResult(Slice(SortLaps(allLaps[p]),
                                IF tool[p] = "find_fastest_laps"
                                THEN params[p]["lap_count"].n
                                ELSE params[p]["count"].n))]
    /\ UNCHANGED <<now, srcCount, cacheVars, fetchVars, tool, targs, params, lapIdx,
                   allLaps, lapCalls, lapIds, lapErrs, threw, nTool>>
    /\ UNCHANGED outerVars

\* the transport delivers the result; the request is over
HandlerEnd(p) ==
    /\ hpc[p] = "returned"
    /\ hpc' = [hpc EXCEPT ![p] = "idle"]
    /\ tool' = [tool EXCEPT ![p] = ""]
    /\ targs' = [targs EXCEPT ![p] = NoArgs]
    /\ params' = [params EXCEPT ![p] = NoParams]
    /\ lapIdx' = [lapIdx EXCEPT ![p] = 0]
    /\ allLaps' = [allLaps EXCEPT ![p] = <<>>]
    /\ lapCalls' = [lapCalls EXCEPT ![p] = 0]
    /\ lapIds' = [lapIds EXCEPT ![p] = <<>>]
    /\ lapErrs' = [lapErrs EXCEPT ![p] = 0]
    /\ threw' = [threw EXCEPT ![p] = ""]
    /\ out' = [out EXCEPT ![p] = NoOut]
    /\ UNCHANGED <<now, srcCount, cacheVars, fetchVars, nTool>>
    /\ UNCHANGED outerVars

\* callTool requests against the shared cache and the Activity Source
NextTool ==
    \/ \E p \in Procs, name \in RequestNames : \E i \in ArgChoices(name) :
           nTool < MaxToolCalls /\ ToolCall(p, name, ArgPool[i])
    \/ \E p \in Procs : FetchReturn(p)
    \/ \E p \in Procs : FetchFail(p)
    \/ \E p \in Procs, analysisOk \in BOOLEAN : HandlerResume(p, analysisOk)
    \/ \E p \in Procs, outcome \in LapOutcomes : LapFetch(p, outcome)
    \/ \E p \in Procs : LapFinish(p)
    \/ \E p \in Procs : HandlerEnd(p)
    \/ AddActivity

SpecTool == Init /\ [][NextTool]_vars

----------------------------------------------------------------------------
(* Claims about the CallTool handler *)

\* a request that has returned
Returned(p) == hpc[p] = "returned"

\* the error payload of a returned request describes that request
PayloadOf(p) ==
    /\ out[p].error = threw[p]
    /\ out[p].tool = tool[p]
    /\ out[p].hasArguments = targs[p].given
    /\ out[p].arguments = targs[p]

\* the request failed validation or named no tool of the catalog
Rejected(p) == tool[p] \notin ToolNames \/ ~Parse(tool[p], targs[p]).ok

\* C9 as stated: the handler never raises, and every failure in validation,
\* fetching or analysis (a failed lap fetch or lap analysis included) gives a
\* result with isError true whose payload carries error, tool and arguments.
C9_AnyFailureIsError ==
    \A p \in Procs :
        Returned(p) =>
            /\ ~out[p].raised
            /\ (Rejected(p) \/ threw[p] # "" \/ lapErrs[p] > 0)
                   => (out[p].isError /\ PayloadOf(p))

\* C9, amended: the handler never raises; a request that names no catalog tool,
\* fails validation, or whose fetchActivities call or analysis throws returns
\* a result with isError true whose payload carries error, tool and the
\* arguments as received (no arguments key when the request carried none);
\* a failure inside one lap-loop iteration is swallowed and does not make the
\* result an error.
C9_HandlerNeverRaises ==
    \A p \in Procs :
        Returned(p) =>
            /\ ~out[p].raised
            /\ out[p].isError <=> (threw[p] # "")
            /\ Rejected(p) => out[p].isError
            /\ out[p].isError => PayloadOf(p)
            /\ (lapErrs[p] > 0 /\ threw[p] = "") => ~out[p].isError

\* a fetch failure, an analysis failure and an unknown name each returned an
\* error result; a lap tool returned normally after a swallowed lap failure
C9_Witness ==
    \E p \in Procs, q \in Procs :
        /\ p # q
        /\ Returned(p) /\ out[p].isError /\ targs[p].given
        /\ threw[p] \in {"Upstream error", "Analysis error"}
        /\ Returned(q) /\ lapErrs[q] > 0 /\ ~out[q].isError

\* the literal schema defaults: count 5, minDistance 1, minGapDays 14,
\* target_distance_km 1.609 (in metres), activity_count 5, lap_count 5
StatedDefault(f) ==
    CASE f = "count" -> 5
      [] f = "minDistance" -> 1
      [] f = "minGapDays" -> 14
      [] f = "target_distance_km" -> 1609
      [] f = "activity_count" -> 5
      [] f = "lap_count" -> 5
      [] OTHER -> 0

HasStatedDefault(f) ==
    f \in {"count", "minDistance", "minGapDays", "target_distance_km",
           "activity_count", "lap_count"}

\* the arguments lack the required key of their tool
MissingRequired(name, a) ==
    name = "get_activity_laps" /\ a.f["activity_ids"].kind = "absent"

\* C10: arguments are validated before any fetch or cache access: on valid
\* arguments every omitted optional key takes its default (count 5,
\* minDistance 1, minGapDays 14, target_distance_km 1.609, activity_count 5,
\* lap_count 5) and every given key keeps its value; arguments that miss a
\* required key (activity_ids of get_activity_laps) or fail the schema return
\* an error result in the same step, with no fetchActivities call started, no
\* Activity Source call and the cache unchanged.
C10_ValidatedBeforeFetch ==
    [][\A p \in Procs :
          (hpc[p] = "idle" /\ hpc'[p] # "idle" /\ tool'[p] \in ToolNames) =>
              LET name == tool'[p]
                  a == targs'[p]
              IN  IF MissingRequired(name, a) \/ ~Parse(name, a).ok
                  THEN /\ hpc'[p] = "returned"
                       /\ out'[p].isError
                       /\ nFetch' = nFetch
                       /\ pc'[p] = "idle" /\ ~called'[p]
                       /\ lapCalls'[p] = 0 /\ lapIds'[p] = <<>>
                       /\ UNCHANGED cacheVars
                  ELSE \A f \in SchemaFields(name) :
                          IF a.f[f].kind # "absent" THEN params'[p][f] = a.f[f]
                          ELSE IF HasStatedDefault(f)
                               THEN params'[p][f] = Num(StatedDefault(f))
                          ELSE params'[p][f] = Absent]_vars

\* one request was rejected for its missing activity_ids with nothing fetched
\* or cached, another runs with every default filled in
C10_Witness ==
    \E p \in Procs, q \in Procs :
        /\ Returned(p) /\ tool[p] = "get_activity_laps" /\ targs[p] = Args(Blank)
        /\ out[p].isError /\ lapCalls[p] = 0
        /\ allActivitiesCache = <<>> /\ queryCache = <<>>
        /\ hpc[q] = "fetching" /\ tool[q] = "get_fastest_activities"
        /\ targs[q] = Args(Blank)
        /\ params[q]["count"] = Num(5) /\ params[q]["minDistance"] = Num(1)

\* the tools with a lap loop
LapTools == {"get_activity_laps", "find_fastest_laps"}

\* the laps one activity contributes: all of them for find_fastest_laps, the
\* ones within 5% of the target distance for get_activity_laps
Contribution(p, activityId) ==
    LET laps == SelectSeq(UpTo(Len(Laps)), LAMBDA l : Laps[l].activity = activityId)
    IN  IF tool[p] = "find_fastest_laps" THEN laps
        ELSE TargetLaps(laps, params[p]["target_distance_km"].n)

\* the number of laps a lap tool returns at most
LapLimit(p) ==
    IF tool[p] = "find_fastest_laps" THEN params[p]["lap_count"].n
    ELSE params[p]["count"].n

\* C12: in get_activity_laps and find_fastest_laps a failed lap fetch for one
\* activity adds nothing and does not end the loop; an activity whose fetch
\* succeeds contributes its laps whatever failed before it; the tool returns
\* only after every listed activity was fetched, and its result is not an
\* error and is the usual fastest-first cut of the aggregated laps.
C12_LapFailureIsolated ==
    [][\A p \in Procs :
          /\ (hpc[p] = "laps" /\ lapIdx'[p] = lapIdx[p] + 1) =>
                 /\ hpc'[p] = "laps"
                 /\ lapCalls'[p] = lapCalls[p] + 1
                 /\ IF lapErrs'[p] # lapErrs[p]
                    THEN allLaps'[p] = allLaps[p]
                    ELSE allLaps'[p] =
                             allLaps[p] \o Contribution(p, lapIds[p][lapIdx[p] + 1])
          /\ (hpc[p] = "laps" /\ hpc'[p] = "returned") =>
                 /\ tool[p] \in LapTools
                 /\ lapCalls[p] = Len(lapIds[p])
                 /\ ~out'[p].isError
                 /\ out'[p].result = Slice(SortLaps(allLaps[p]), LapLimit(p))]_vars

\* get_activity_laps for two activities: the first lap fetch failed, the
\* second was still made, and its lap is returned in a normal result
C12_Witness ==
    \E p \in Procs :
        /\ Returned(p) /\ tool[p] = "get_activity_laps"
        /\ Len(lapIds[p]) = 2 /\ lapCalls[p] = 2 /\ lapErrs[p] = 1
        /\ allLaps[p] = Contribution(p, lapIds[p][2])
        /\ out[p].result # <<>> /\ ~out[p].isError

----------------------------------------------------------------------------
(* StravaClient: connect, getInsight, reconnect, query, disconnect *)

\* query(question) from its entry to the first anthropic.messages.create await
StartQuery(q, at) ==
    /\ gpc' = [gpc EXCEPT ![q] = at]
    /\ qpc' = [qpc EXCEPT ![q] = "awaitModel"]
    /\ messages' = [messages EXCEPT ![q] = <<>>]
    /\ assistantMessage' = [assistantMessage EXCEPT ![q] = <<>>]
    /\ toolResults' = [toolResults EXCEPT ![q] = <<>>]
    /\ toolIdx' = [toolIdx EXCEPT ![q] = 0]
    /\ dispatched' = [dispatched EXCEPT ![q] = <<>>]
    /\ rounds' = [rounds EXCEPT ![q] = 0]

\* the call rejects with err
Throw(q, err) ==
    /\ gpc' = [gpc EXCEPT ![q] = "failed"]
    /\ payload' = [payload EXCEPT ![q] = Thrown(err)]

\* variant: reconnect() gives up only above the maximum
ReconnectEntry_OneMore(q) ==
    IF reconnectAttempts > MaxReconnectAttempts
    THEN /\ Throw(q, "Max reconnection attempts reached")
         /\ UNCHANGED <<reconnectAttempts, attemptsInCall>>
    ELSE /\ reconnectAttempts' = reconnectAttempts + 1
         /\ attemptsInCall' = [attemptsInCall EXCEPT ![q] = attemptsInCall[q] + 1]
         /\ gpc' = [gpc EXCEPT ![q] = "re_disconnect"]
         /\ UNCHANGED payload

\* reconnect() from its entry to the await of disconnect()
ReconnectEntry(q) ==
    IF reconnectAttempts >= MaxReconnectAttempts
    THEN /\ Throw(q, "Max reconnection attempts reached")
         /\ UNCHANGED <<reconnectAttempts, attemptsInCall>>
    ELSE /\ reconnectAttempts' = reconnectAttempts + 1
         /\ attemptsInCall' = [attemptsInCall EXCEPT ![q] = attemptsInCall[q] + 1]
         /\ gpc' = [gpc EXCEPT ![q] = "re_disconnect"]
         /\ UNCHANGED payload

\* the catch of getInsight: reconnect when not connected, else rethrow
GetInsightCatch(q, err) ==
    IF ~isConnected
    THEN ReconnectEntry(q)
    ELSE /\ Throw(q, err)
         /\ UNCHANGED <<reconnectAttempts, attemptsInCall>>

\* variant: connect() builds a transport whatever isConnected says
ConnectIsNoOp_Never == FALSE

\* connect(): if (this.isConnected) return
ConnectIsNoOp == isConnected

\* a direct connect() call, as main() makes
CallConnect(q) ==
    /\ gpc[q] = "idle"
    /\ nCalls' = nCalls + 1
    /\ payload' = [payload EXCEPT ![q] = NoPayload]
    /\ IF ConnectIsNoOp
       THEN /\ gpc' = [gpc EXCEPT ![q] = "connected"]
            /\ UNCHANGED <<transports, transportOpen>>
       ELSE /\ transports' = transports + 1
            /\ transportOpen' = TRUE
            /\ gpc' = [gpc EXCEPT ![q] = "direct_connect"]
    /\ UNCHANGED <<isConnected, reconnectAttempts, clientTools, listCalls, question,
                   attemptsInCall, waited, delay, closed, queryVars,
                   serverVars, analysisVars, apiVars>>

\* getInsight(question) from its entry to its first await
GetInsightCall(q, text) ==
    /\ gpc[q] = "idle"
    /\ nCalls' = nCalls + 1
    /\ question' = [question EXCEPT ![q] = text]
    /\ attemptsInCall' = [attemptsInCall EXCEPT ![q] = 0]
    /\ waited' = [waited EXCEPT ![q] = <<>>]
    /\ payload' = [payload EXCEPT ![q] = NoPayload]
    /\ IF ConnectIsNoOp
       THEN /\ StartQuery(q, "try_query")
            /\ UNCHANGED <<transports, transportOpen>>
       ELSE /\ transports' = transports + 1
            /\ transportOpen' = TRUE
            /\ gpc' = [gpc EXCEPT ![q] = "try_connect"]
            /\ UNCHANGED queryVars
    /\ UNCHANGED <<isConnected, reconnectAttempts, clientTools, listCalls, delay,
                   closed, serverVars, analysisVars>>

\* a getInsight call made by the chat loop
GetInsight(q) == GetInsightCall(q, QuestionOf(q)) /\ UNCHANGED apiVars

\* the awaits of connect() settle: mcp.connect and mcp.listTools succeeded, or
\* one of them rejected and connect rethrows
ConnectSettle(q, ok) ==
    /\ gpc[q] \in {"try_connect", "re_connect", "direct_connect"}
    /\ IF ok
       THEN /\ clientTools' = ListTools
            /\ listCalls' = listCalls + 1
            /\ isConnected' = TRUE
            /\ reconnectAttempts' = 0
            /\ IF gpc[q] = "direct_connect"
               THEN /\ gpc' = [gpc EXCEPT ![q] = "connected"]
                    /\ UNCHANGED queryVars
               ELSE StartQuery(q, IF gpc[q] = "try_connect" THEN "try_query"
                                  ELSE "re_query")
            /\ UNCHANGED <<attemptsInCall, payload>>
       ELSE /\ IF gpc[q] = "try_connect"
               THEN GetInsightCatch(q, "connect failed")
               ELSE /\ Throw(q, "connect failed")
                    /\ UNCHANGED <<reconnectAttempts, attemptsInCall>>
            /\ UNCHANGED <<clientTools, listCalls, isConnected, queryVars>>
    /\ UNCHANGED <<transports, transportOpen, nCalls, question, waited, delay, closed,
                   serverVars, analysisVars, apiVars>>

\* how await this.mcp.close() and await this.transport?.close() may go
CloseOutcomes == {"closed", "mcp_close_failed", "transport_close_failed"}

\* variant: disconnect() without its catch and finally
DisconnectResult_NoFinally(connected, outcome) ==
    IF outcome = "closed" THEN [raised |-> FALSE, isConnected |-> FALSE]
    ELSE [raised |-> TRUE, isConnected |-> connected]

\* disconnect(): the catch logs a failed close, the finally marks the
\* connection not-live
DisconnectResult(connected, outcome) ==
    LET caught == outcome # "closed"
    IN  [raised |-> FALSE, isConnected |-> FALSE]

\* disconnect(): this.transport?.close() is awaited after this.mcp.close() in
\* the same try block, so it runs only when mcp.close() did not reject, and it
\* closes the transport this.transport names at that moment
OpenAfterClose(outcome) ==
    IF outcome = "closed" THEN FALSE ELSE transportOpen

\* the close calls of disconnect() settled: disconnect() returns to its caller
\* or, inside reconnect(), the timer is set; a raise would reject either
DisconnectSettle(q, outcome) ==
    /\ gpc[q] \in {"re_disconnect", "direct_disconnect"}
    /\ closed' = [closed EXCEPT ![q] = outcome]
    /\ LET r == DisconnectResult(isConnected, outcome)
       IN  /\ isConnected' = r.isConnected
           /\ IF r.raised
              THEN /\ Throw(q, "disconnect failed")
                   /\ UNCHANGED delay
              ELSE IF gpc[q] = "re_disconnect"
              THEN /\ delay' = [delay EXCEPT ![q] = ReconnectDelay * reconnectAttempts]
                   /\ gpc' = [gpc EXCEPT ![q] = "re_wait"]
                   /\ UNCHANGED payload
              ELSE /\ gpc' = [gpc EXCEPT ![q] = "disconnected"]
                   /\ UNCHANGED <<delay, payload>>
    /\ transportOpen' = OpenAfterClose(outcome)
    /\ UNCHANGED <<reconnectAttempts, clientTools, transports, listCalls,
                   nCalls, question, attemptsInCall, waited, queryVars,
                   serverVars, analysisVars, apiVars>>

\* reconnect(): the timer fired, connect() is called
WaitDone(q) ==
    /\ gpc[q] = "re_wait"
    /\ waited' = [waited EXCEPT ![q] = Append(waited[q], delay[q])]
    /\ IF ConnectIsNoOp
       THEN /\ StartQuery(q, "re_query")
            /\ UNCHANGED <<transports, transportOpen>>
       ELSE /\ transports' = transports + 1
            /\ transportOpen' = TRUE
            /\ gpc' = [gpc EXCEPT ![q] = "re_connect"]
            /\ UNCHANGED queryVars
    /\ UNCHANGED <<isConnected, reconnectAttempts, clientTools, listCalls, nCalls,
                   question, attemptsInCall, delay, closed, payload,
                   serverVars, analysisVars, apiVars>>

\* variant: the tool results replace the last entry of messages
PushResults_Replace(msgs, rs) ==
    IF msgs = <<>> THEN <<UserResults(rs)>>
    ELSE [msgs EXCEPT ![Len(msgs)] = UserResults(rs)]

\* messages.push({ role: "user", content: toolResults })
PushResults(msgs, rs) == Append(msgs, UserResults(rs))

\* variant: the loop returns after one tool-executing turn
LoopReturns_Capped(q, content) == ToolUsesOf(content) = <<>> \/ rounds[q] >= 1

\* if (toolUses.length === 0): the loop ends
LoopReturns(q, content) == ToolUsesOf(content) = <<>>

\* variant: the tool uses are executed last first
DispatchOrder_Reversed(uses) ==
    [i \in 1..Len(uses) |-> uses[Len(uses) + 1 - i]]

\* for (const toolUse of toolUses)
DispatchOrder(uses) == uses

\* variant: the answer is the text of the last text block
ReturnedAnswer_LastText(content) ==
    LET texts == SelectSeq(content, LAMBDA c : c.type = "text")
    IN  IF texts = <<>> THEN "No response generated" ELSE texts[Len(texts)].text

\* the answer field of the returned payload
ReturnedAnswer(content) == AnswerOf(content)

\* the model answered: one pass of the while loop, up to the return or to the
\* first mcp.callTool await
ModelRespond(q, content) ==
    /\ gpc[q] \in {"try_query", "re_query"}
    /\ qpc[q] = "awaitModel"
    /\ assistantMessage' = [assistantMessage EXCEPT ![q] = content]
    /\ LET msgs == IF messages[q] = <<>> THEN <<UserQuestion(question[q])>>
                   ELSE messages[q]
           uses == DispatchOrder(ToolUsesOf(content))
       IN  IF LoopReturns(q, content)
           THEN /\ messages' = [messages EXCEPT ![q] = msgs]
                /\ payload' = [payload EXCEPT ![q] = Answer(ReturnedAnswer(content))]
                /\ gpc' = [gpc EXCEPT ![q] = "done"]
                /\ qpc' = [qpc EXCEPT ![q] = "idle"]
                /\ UNCHANGED <<toolResults, toolIdx, dispatched, rounds>>
           ELSE /\ messages' = [messages EXCEPT ![q] = Append(msgs, AssistantTurn(content))]
                /\ toolResults' = [toolResults EXCEPT ![q] = <<>>]
                /\ toolIdx' = [toolIdx EXCEPT ![q] = 0]
                /\ dispatched' = [dispatched EXCEPT ![q] = <<uses[1].id>>]
                /\ rounds' = [rounds EXCEPT ![q] = rounds[q] + 1]
                /\ qpc' = [qpc EXCEPT ![q] = "executing"]
                /\ UNCHANGED <<gpc, payload>>
    /\ UNCHANGED <<isConnected, reconnectAttempts, clientTools, transports, transportOpen, listCalls,
                   nCalls, question, attemptsInCall, waited, delay, closed,
                   serverVars, analysisVars, apiVars>>

\* variant: a rejected retry goes through the catch once more
QueryRejects_CatchAgain(q, err) == GetInsightCatch(q, err)

\* await this.query(question) rejects: inside the try the catch takes the
\* error, inside the catch nothing takes it and getInsight rejects with it
QueryRejects(q, err) ==
    IF gpc[q] = "try_query"
    THEN GetInsightCatch(q, err)
    ELSE /\ Throw(q, err)
         /\ UNCHANGED <<reconnectAttempts, attemptsInCall>>

\* anthropic.messages.create rejects: query rejects
ModelFail(q) ==
    /\ gpc[q] \in {"try_query", "re_query"}
    /\ qpc[q] = "awaitModel"
    /\ qpc' = [qpc EXCEPT ![q] = "idle"]
    /\ QueryRejects(q, "model call failed")
    /\ UNCHANGED <<isConnected, clientTools, transports, transportOpen, listCalls, nCalls, question,
                   waited, delay, closed, messages, assistantMessage, toolResults, toolIdx,
                   dispatched, rounds, serverVars, analysisVars, apiVars>>

\* variant: the loop stops after the tool results
AfterResults_Halt == "halted"

\* after the tool results: await the next anthropic.messages.create
AfterResults == "awaitModel"

\* variant: a rejected mcp.callTool ends the turn's loop
TurnOver_OnRaise(q, uses, outcome) == toolIdx[q] + 1 >= Len(uses) \/ outcome = "raise"

\* the for loop over toolUses is over
TurnOver(q, uses, outcome) == toolIdx[q] + 1 >= Len(uses)

\* mcp.callTool settled: push the tool_result, then call the next tool or send
\* the results to the model
ToolSettle(q, outcome) ==
    /\ qpc[q] = "executing"
    /\ LET uses == DispatchOrder(ToolUsesOf(assistantMessage[q]))
           rs == Append(toolResults[q], ToolResult(uses[toolIdx[q] + 1], outcome))
       IN  /\ toolResults' = [toolResults EXCEPT ![q] = rs]
           /\ toolIdx' = [toolIdx EXCEPT ![q] = toolIdx[q] + 1]
           /\ IF TurnOver(q, uses, outcome)
              THEN /\ messages' = [messages EXCEPT ![q] = PushResults(messages[q], rs)]
                   /\ qpc' = [qpc EXCEPT ![q] = AfterResults]
                   /\ UNCHANGED dispatched
              ELSE /\ dispatched' = [dispatched EXCEPT ![q] =
                                        Append(dispatched[q], uses[toolIdx[q] + 2].id)]
                   /\ UNCHANGED <<messages, qpc>>
    /\ UNCHANGED <<connVars, assistantMessage, rounds, serverVars, analysisVars, apiVars>>

\* a direct disconnect() call, as the chat's quit makes it, up to its first await
CallDisconnect(q) ==
    /\ gpc[q] = "idle"
    /\ nCalls' = nCalls + 1
    /\ gpc' = [gpc EXCEPT ![q] = "direct_disconnect"]
    /\ payload' = [payload EXCEPT ![q] = NoPayload]
    /\ UNCHANGED <<isConnected, reconnectAttempts, clientTools, transports, transportOpen, listCalls,
                   question, attemptsInCall, waited, delay, closed, queryVars,
                   serverVars, analysisVars, apiVars>>

\* the caller takes what getInsight, connect or disconnect returned or threw
CallEnds(q) ==
    /\ gpc[q] \in {"done", "failed", "connected", "disconnected"}
    /\ closed' = [closed EXCEPT ![q] = ""]
    /\ gpc' = [gpc EXCEPT ![q] = "idle"]
    /\ question' = [question EXCEPT ![q] = ""]
    /\ attemptsInCall' = [attemptsInCall EXCEPT ![q] = 0]
    /\ waited' = [waited EXCEPT ![q] = <<>>]
    /\ delay' = [delay EXCEPT ![q] = 0]
    /\ payload' = [payload EXCEPT ![q] = NoPayload]
    /\ qpc' = [qpc EXCEPT ![q] = "idle"]
    /\ messages' = [messages EXCEPT ![q] = <<>>]
    /\ assistantMessage' = [assistantMessage EXCEPT ![q] = <<>>]
    /\ toolResults' = [toolResults EXCEPT ![q] = <<>>]
    /\ toolIdx' = [toolIdx EXCEPT ![q] = 0]
    /\ dispatched' = [dispatched EXCEPT ![q] = <<>>]
    /\ rounds' = [rounds EXCEPT ![q] = 0]
    /\ UNCHANGED <<isConnected, reconnectAttempts, clientTools, transports, transportOpen, listCalls,
                   nCalls, serverVars, analysisVars>>

\* the chat loop takes the outcome of its call
InsightEnd(q) == CallEnds(q) /\ UNCHANGED apiVars

\* the question fields of the requests: absent, "", 0, 42, a question
RequestBodies(q) ==
    {Question("undefined", "", 0), Question("string", "", 0), Question("number", "", 0),
     Question("number", "", 42), Question("string", QuestionOf(q), 0)}

\* !question
Falsy(b) ==
    \/ b.kind = "undefined"
    \/ b.kind = "string" /\ b.text = ""
    \/ b.kind = "number" /\ b.n = 0

\* variant: only !question is tested
BadQuestion_FalsyOnly(b) == Falsy(b)

\* if (!question || typeof question !== "string")
BadQuestion(b) == Falsy(b) \/ b.kind # "string"

\* the ErrorResponse envelope sent with res.status(status).json(...)
ErrorResponse(status, message, details) ==
    [status |-> status, message |-> message, details |-> details, payload |-> NoPayload]

\* res.json(payload)
PayloadResponse(p) == [status |-> 200, message |-> "", details |-> "", payload |-> p]

\* handleInsight from its entry to its return or to the await of getInsight
HandleInsight(q, b) ==
    /\ gpc[q] = "idle"
    /\ body[q] = NoBody
    /\ body' = [body EXCEPT ![q] = b]
    /\ IF BadQuestion(b)
       THEN /\ response' = [response EXCEPT ![q] =
                   ErrorResponse(400, "Invalid request body",
                                 "Question is required and must be a string")]
            /\ UNCHANGED <<clientVars, serverVars, analysisVars>>
       ELSE /\ GetInsightCall(q, b.text)
            /\ UNCHANGED response

\* getInsight settled: res.json(payload), or the catch sends the 500 envelope
HandleInsightSettle(q) ==
    /\ body[q] # NoBody
    /\ response[q] = NoResponse
    /\ gpc[q] \in {"done", "failed"}
    /\ response' = [response EXCEPT ![q] =
           IF gpc[q] = "done" THEN PayloadResponse(payload[q])
           ELSE ErrorResponse(500, "Error generating insight", payload[q].error)]
    /\ CallEnds(q)
    /\ UNCHANGED body

\* the response has gone out: the request is over
ResponseSent(q) ==
    /\ body[q] # NoBody
    /\ response[q] # NoResponse
    /\ body' = [body EXCEPT ![q] = NoBody]
    /\ response' = [response EXCEPT ![q] = NoResponse]
    /\ UNCHANGED <<clientVars, serverVars, analysisVars>>

\* tool-executing turns of the queries in progress
RoundsInProgress == rounds["u1"] + rounds["u2"]

\* the responses the model may give: it asks for tools in at most MaxRounds
\* turns, and for several tools at once only in the first turn of a query
ResponsesAt(q) ==
    IF RoundsInProgress >= MaxRounds THEN FinalResponses
    ELSE IF rounds[q] = 0 THEN FinalResponses \cup ToolResponses
    ELSE FinalResponses \cup {r \in ToolResponses : Len(ToolUsesOf(r)) = 1}

\* conversation loops of concurrent callers on a client that connects
NextLoop ==
    \/ \E q \in Callers : nCalls < MaxCalls /\ GetInsight(q)
    \/ \E q \in Callers : ConnectSettle(q, TRUE)
    \/ \E q \in Callers : \E content \in ResponsesAt(q) : ModelRespond(q, content)
    \/ \E q \in Callers, outcome \in CallOutcomes : ToolSettle(q, outcome)
    \/ \E q \in Callers : InsightEnd(q)

SpecLoop == Init /\ [][NextLoop]_vars

\* one caller's conversation loop, every pending await settling
NextLive ==
    \/ nCalls < MaxCalls /\ GetInsight("u1")
    \/ ConnectSettle("u1", TRUE)
    \/ \E content \in ResponsesAt("u1") : ModelRespond("u1", content)
    \/ \E outcome \in CallOutcomes : ToolSettle("u1", outcome)
    \/ InsightEnd("u1")

SpecLive ==
    /\ Init /\ [][NextLive]_vars
    /\ WF_vars(ConnectSettle("u1", TRUE))
    /\ WF_vars(\E content \in ResponsesAt("u1") : ModelRespond("u1", content))
    /\ WF_vars(\E outcome \in CallOutcomes : ToolSettle("u1", outcome))

\* the connection lifecycle: the model answers at once or fails
NextConn ==
    \/ \E q \in Callers : nCalls < MaxCalls + 1 /\ CallConnect(q)
    \/ \E q \in Callers : nCalls < MaxCalls + 1 /\ GetInsight(q)
    \/ \E q \in Callers, ok \in BOOLEAN : ConnectSettle(q, ok)
    \/ \E q \in Callers, outcome \in CloseOutcomes : DisconnectSettle(q, outcome)
    \/ \E q \in Callers : WaitDone(q)
    \/ \E q \in Callers : \E content \in FinalResponses : ModelRespond(q, content)
    \/ \E q \in Callers : ModelFail(q)
    \/ \E q \in Callers : nCalls < MaxCalls + 1 /\ CallDisconnect(q)
    \/ \E q \in Callers : InsightEnd(q)

SpecConn == Init /\ [][NextConn]_vars

\* one caller's getInsight calls with every failure the code can meet: a
\* connect, a model call or a tool call that rejects
NextChannel ==
    \/ nCalls < MaxCalls /\ GetInsight("u1")
    \/ \E ok \in BOOLEAN : ConnectSettle("u1", ok)
    \/ \E outcome \in CloseOutcomes : DisconnectSettle("u1", outcome)
    \/ WaitDone("u1")
    \/ \E content \in ResponsesAt("u1") : ModelRespond("u1", content)
    \/ ModelFail("u1")
    \/ \E outcome \in CallOutcomes : ToolSettle("u1", outcome)
    \/ InsightEnd("u1")

SpecChannel == Init /\ [][NextChannel]_vars

\* the insight endpoint over the shared client
NextApi ==
    \/ \E q \in Callers : \E b \in RequestBodies(q) : nCalls < MaxCalls /\ HandleInsight(q, b)
    \/ \E q \in Callers, ok \in BOOLEAN : ConnectSettle(q, ok)
    \/ \E q \in Callers, outcome \in CloseOutcomes : DisconnectSettle(q, outcome)
    \/ \E q \in Callers : WaitDone(q)
    \/ \E q \in Callers : \E content \in FinalResponses : ModelRespond(q, content)
    \/ \E q \in Callers : ModelFail(q)
    \/ \E q \in Callers : HandleInsightSettle(q)
    \/ \E q \in Callers : ResponseSent(q)

SpecApi == Init /\ [][NextApi]_vars

----------------------------------------------------------------------------
(* Claims about the tool catalog and the conversation loop *)

\* the names a catalog lists
NamesOf(catalog) == {catalog[i] : i \in DOMAIN catalog}

NoDuplicates(catalog) ==
    \A i \in DOMAIN catalog, j \in DOMAIN catalog : i # j => catalog[i] # catalog[j]

\* C11: the catalog listTools returns names exactly the tools the dispatcher
\* handles, lists no name twice, and is the same at every listing.
C11_CatalogMatchesHandlers ==
    listCalls > 0 =>
        /\ NamesOf(clientTools) = HandledNames
        /\ NoDuplicates(clientTools)
        /\ clientTools = Tools

\* the client listed the tools on two separate connects
C11_Witness == listCalls >= 2 /\ isConnected /\ Len(clientTools) = Cardinality(HandledNames)

\* the ids of a sequence of tool_use blocks or tool results
UseIds(uses) == [i \in DOMAIN uses |-> uses[i].id]
ResultIds(rs) == [i \in DOMAIN rs |-> rs[i].tool_use_id]

\* the last entry of a caller's history
LastMessage(q) == messages[q][Len(messages[q])]

\* the caller's query sent tool results and awaits the model
ResultsSent(q) == qpc[q] = "awaitModel" /\ messages[q] # <<>>

\* C13: within a turn the tool calls are dispatched one at a time in the order
\* the model listed them, and the tool-result message holds exactly one result
\* per requested call, in that order, each tagged with its call's id.
C13_DispatchInOrder ==
    \A q \in Callers :
        LET ids == UseIds(ToolUsesOf(assistantMessage[q]))
        IN  /\ qpc[q] = "executing" =>
                  /\ toolIdx[q] < Len(ids)
                  /\ dispatched[q] = SubSeq(ids, 1, toolIdx[q] + 1)
                  /\ ResultIds(toolResults[q]) = SubSeq(ids, 1, toolIdx[q])
            /\ ResultsSent(q) =>
                  /\ dispatched[q] = ids
                  /\ ResultIds(LastMessage(q).results) = ids

\* a turn with two tool calls had both dispatched and answered in order
C13_Witness ==
    \E q \in Callers :
        /\ ResultsSent(q)
        /\ dispatched[q] = <<"tu1", "tu2">>
        /\ ResultIds(LastMessage(q).results) = <<"tu1", "tu2">>

\* the text blocks of a response
TextsOf(content) == SelectSeq(content, LAMBDA c : c.type = "text")

\* the caller's query returns in this step
QueryReturns(q) == gpc[q] # "done" /\ gpc'[q] = "done"

\* C14 as stated: query returns only on a response without tool calls, with
\* that response's text as the answer, 'No response generated' exactly when it
\* has no text block, and an empty supportingActivities list.
C14_AnswerIsResponseText ==
    [][\A q \in Callers :
          QueryReturns(q) =>
              /\ qpc[q] = "awaitModel"
              /\ ToolUsesOf(assistantMessage'[q]) = <<>>
              /\ payload'[q].supportingActivities = <<>>
              /\ payload'[q].answer =
                     IF TextsOf(assistantMessage'[q]) = <<>>
                     THEN "No response generated"
                     ELSE TextsOf(assistantMessage'[q])[1].text]_vars

\* C14, amended: query returns only on a response without tool calls; the
\* answer is the text of its first text block, or 'No response generated' when
\* it has no text block or that text is empty; supportingActivities is empty;
\* a response with a tool call never ends the loop.
C14_ReturnsOnNoToolUse ==
    [][\A q \in Callers :
          /\ QueryReturns(q) =>
                 /\ qpc[q] = "awaitModel"
                 /\ ToolUsesOf(assistantMessage'[q]) = <<>>
                 /\ payload'[q].supportingActivities = <<>>
                 /\ payload'[q].answer =
                        IF TextsOf(assistantMessage'[q]) = <<>>
                           \/ TextsOf(assistantMessage'[q])[1].text = ""
                        THEN "No response generated"
                        ELSE TextsOf(assistantMessage'[q])[1].text
          /\ (qpc[q] = "awaitModel" /\ assistantMessage'[q] # assistantMessage[q]
              /\ ToolUsesOf(assistantMessage'[q]) # <<>>) => gpc'[q] # "done"]_vars

\* after a tool-executing turn a query returned the first of two text blocks
C14_Witness ==
    \E q \in Callers :
        /\ gpc[q] = "done" /\ rounds[q] >= 1
        /\ Len(TextsOf(assistantMessage[q])) = 2
        /\ payload[q].answer = "Summary"

\* C15: a tool call that fails (isError from the dispatcher, or a rejected
\* call) is recorded as an error result under its tool-use id; the remaining
\* tool calls of the turn still run, the results go back to the model, and the
\* question is not aborted.
C15_ToolFailureRecorded ==
    [][\A q \in Callers :
          (qpc[q] = "executing" /\ toolIdx'[q] = toolIdx[q] + 1) =>
              LET uses == ToolUsesOf(assistantMessage[q])
                  r == toolResults'[q][Len(toolResults'[q])]
              IN  /\ Len(toolResults'[q]) = toolIdx[q] + 1
                  /\ r.tool_use_id = uses[toolIdx[q] + 1].id
                  /\ r.is_error <=>
                         r.content \in {"Error: call failed",
                                        "error payload of " \o uses[toolIdx[q] + 1].name}
                  /\ gpc'[q] = gpc[q]
                  /\ IF toolIdx[q] + 1 < Len(uses)
                     THEN /\ qpc'[q] = "executing"
                          /\ dispatched'[q] = Append(dispatched[q], uses[toolIdx[q] + 2].id)
                     ELSE /\ qpc'[q] = "awaitModel"
                          /\ messages'[q] = Append(messages[q], UserResults(toolResults'[q]))]_vars

\* the first of two tool calls was rejected, the second failed with isError:
\* both are recorded as errors and the results were sent to the model
C15_Witness ==
    \E q \in Callers :
        /\ ResultsSent(q)
        /\ Len(LastMessage(q).results) = 2
        /\ LastMessage(q).results[1].is_error
        /\ LastMessage(q).results[1].content = "Error: call failed"
        /\ LastMessage(q).results[2].is_error
        /\ gpc[q] \in {"try_query", "re_query"}

\* C16: when every model call and tool call returns and the model stops asking
\* for tools, a getInsight call eventually reaches Done with an answer.
C16_LoopReachesDone ==
    (gpc["u1"] \in {"try_connect", "try_query"})
        ~> (gpc["u1"] = "done" /\ payload["u1"].status = "returned")

\* a query answered after as many tool-executing turns as the model asked for
C16_Witness ==
    /\ gpc["u1"] = "done"
    /\ rounds["u1"] = MaxRounds
    /\ payload["u1"].status = "returned"

\* the model's response arrives at the caller's query in this step
Responds(q) ==
    /\ qpc[q] = "awaitModel"
    /\ gpc'[q] \in {"try_query", "re_query", "done"}
    /\ qpc'[q] # "awaitModel"

\* C17: the loop has no iteration cap: whatever the number of turns so far, a
\* response with a tool call starts one more tool-executing turn and the query
\* does not return.
C17_NoIterationCap ==
    [][\A q \in Callers :
          (Responds(q) /\ ToolUsesOf(assistantMessage'[q]) # <<>>) =>
              /\ qpc'[q] = "executing"
              /\ gpc'[q] = gpc[q]
              /\ rounds'[q] = rounds[q] + 1
              /\ payload'[q] = payload[q]]_vars

\* a query in its last modelled turn, still executing tools
C17_Witness ==
    \E q \in Callers : qpc[q] = "executing" /\ rounds[q] = MaxRounds

\* s is a prefix of t
IsPrefix(s, t) == Len(s) <= Len(t) /\ SubSeq(t, 1, Len(s)) = s

\* a history starts with the caller's question, then alternates an assistant
\* turn with tool calls and a user turn with their results
WellFormedHistory(q, msgs) ==
    \A i \in DOMAIN msgs :
        IF i = 1 THEN msgs[i] = UserQuestion(QuestionOf(q))
        ELSE IF i % 2 = 0
             THEN /\ msgs[i].role = "assistant"
                  /\ ToolUsesOf(msgs[i].blocks) # <<>>
             ELSE /\ msgs[i].role = "user"
                  /\ ResultIds(msgs[i].results) = UseIds(ToolUsesOf(msgs[i - 1].blocks))

\* C18: the history of a query is append-only and well formed: it starts with
\* the user's question and alternates assistant tool-call turns and user
\* tool-result turns; no entry is changed or removed while the query runs; a
\* new query starts from its own empty history, also beside a running one.
C18_HistoryAppendOnly ==
    [][\A q \in Callers :
          /\ WellFormedHistory(q, messages'[q])
          /\ \/ IsPrefix(messages[q], messages'[q])
             \/ /\ messages'[q] = <<>>
                /\ \/ gpc[q] \in {"done", "failed"}
                   \/ (qpc[q] = "idle" /\ qpc'[q] = "awaitModel")
          /\ (qpc[q] # "awaitModel" /\ qpc'[q] = "awaitModel" /\ gpc'[q] # gpc[q])
                 => messages'[q] = <<>>]_vars

\* two queries run side by side, each with its own three-entry history
C18_Witness ==
    /\ Len(messages["u1"]) >= 3 /\ Len(messages["u2"]) >= 3
    /\ messages["u1"][1].text = QuestionOf("u1")
    /\ messages["u2"][1].text = QuestionOf("u2")

\* a connect() call is made in this step: directly, or by reconnect() after its wait
ConnectCalled(q) ==
    \/ gpc[q] = "idle" /\ gpc'[q] \in {"connected", "direct_connect"}
    \/ gpc[q] = "re_wait" /\ gpc'[q] # "re_wait"

\* C19: connect() on a client marked connected is a no-op: no transport, no
\* side-channel connect or tool listing, the catalog, the connected flag and
\* the reconnect counter unchanged.
C19_ConnectIdempotent ==
    [][\A q \in Callers :
          (ConnectCalled(q) /\ isConnected) =>
              /\ transports' = transports
              /\ listCalls' = listCalls
              /\ clientTools' = clientTools
              /\ isConnected' = isConnected
              /\ reconnectAttempts' = reconnectAttempts
              /\ gpc'[q] \notin {"direct_connect", "re_connect"}]_vars

\* both callers returned from connect(), and only one transport was ever made
C19_Witness ==
    /\ gpc["u1"] = "connected" /\ gpc["u2"] = "connected"
    /\ isConnected /\ transports = 1 /\ listCalls = 1

\* C20 as stated: a getInsight call that went reconnecting fails only after 3
\* reconnection attempts made within that call, having waited 1 s, 2 s and 3 s.
C20_ThreeAttemptsBeforeFatal ==
    \A q \in Callers :
        (gpc[q] = "failed" /\ question[q] # "" /\ attemptsInCall[q] > 0) =>
            /\ attemptsInCall[q] = MaxReconnectAttempts
            /\ waited[q] = <<ReconnectDelay, 2 * ReconnectDelay, 3 * ReconnectDelay>>

----------------------------------------------------------------------------
(* Claims about reconnection and teardown *)

\* the retry of the query ends in this step
RetryEnds(q) == gpc[q] = "re_query" /\ gpc'[q] # "re_query"

\* C21: the query is re-run only after reconnect() returned, and once: the
\* retry ends getInsight, with the retry's answer or with the retry's own
\* error, and starts no further reconnect attempt, transport or query.
C21_RetryOnce ==
    [][\A q \in Callers :
          /\ (gpc[q] # "re_query" /\ gpc'[q] = "re_query") =>
                 /\ gpc[q] \in {"re_wait", "re_connect"}
                 /\ attemptsInCall[q] = 1
                 /\ isConnected'
          /\ RetryEnds(q) =>
                 /\ gpc'[q] \in {"done", "failed"}
                 /\ gpc'[q] = "failed" => payload'[q] = Thrown("model call failed")
                 /\ gpc'[q] = "done" => payload'[q].status = "returned"
                 /\ reconnectAttempts' = reconnectAttempts
                 /\ attemptsInCall'[q] = attemptsInCall[q]
                 /\ transports' = transports]_vars

\* a retry failed while the connection was marked not-live, and getInsight
\* rejected with the retry's error after its single reconnect attempt
C21_Witness ==
    /\ gpc["u1"] = "failed" /\ payload["u1"] = Thrown("model call failed")
    /\ attemptsInCall["u1"] = 1 /\ waited["u1"] = <<ReconnectDelay>>
    /\ ~isConnected

\* a tool call of q's query rejected, as it does once the side channel is lost
ToolCallRejected(q) ==
    \E i \in DOMAIN messages[q] :
        \E j \in DOMAIN messages[q][i].results :
            messages[q][i].results[j] =
                [tool_use_id |-> messages[q][i].results[j].tool_use_id,
                 content |-> "Error: call failed", is_error |-> TRUE]

\* C22 as stated: a getInsight call in whose query a tool call rejected on a
\* lost side channel has gone through the reconnection procedure by the time
\* it ends.
C22_ChannelLossReconnects ==
    \A q \in Callers :
        (gpc[q] \in {"done", "failed"} /\ ToolCallRejected(q)) =>
            attemptsInCall[q] > 0

\* disconnect() settles in this step
DisconnectSettles(q) ==
    gpc[q] \in {"re_disconnect", "direct_disconnect"} /\ gpc'[q] # gpc[q]

\* C23: disconnect() returns normally and leaves the connection marked
\* not-live, whether the close calls succeed or reject, whether the
\* connection was live or not.
C23_DisconnectNeverRaises ==
    [][\A q \in Callers :
          DisconnectSettles(q) =>
              /\ ~isConnected'
              /\ gpc'[q] = (IF gpc[q] = "re_disconnect" THEN "re_wait"
                            ELSE "disconnected")
              /\ payload'[q] = payload[q]]_vars

\* a live connection was torn down by a disconnect() whose transport close
\* rejected, and a never-connected one by a disconnect() whose side-channel
\* close rejected; both returned
C23_Witness ==
    /\ gpc["u1"] = "disconnected" /\ closed["u1"] = "transport_close_failed"
    /\ gpc["u2"] = "re_wait" /\ closed["u2"] = "mcp_close_failed"
    /\ clientTools # <<>> /\ ~isConnected

----------------------------------------------------------------------------
(* The analytics pipeline: analyzeRuns, then one function on its run list *)

\* records in the longest activity list given to analyzeRuns
MaxListLen == 3

\* the records dated before November 2024
EarlyActs == {i \in ActIds : Acts[i].day < MkDate(2024, 11, 1)}

\* the activity lists: those records, without repetition, in any order
ActivityLists ==
    UNION {{l \in [1..n -> EarlyActs] : \A i, j \in 1..n : i # j => l[i] # l[j]} :
           n \in 0..MaxListLen}

\* count arguments, the schema accepting any number
Counts == {0 - 1, 0, 1, 2, CountDefault}

\* minDistance arguments, in miles
MinDistances == {MinDistanceDefault, 2}

\* const { runs } = analyzeRuns(activities)
CallAnalyzeRuns(acts) ==
    /\ apc = "idle"
    /\ givenActivities' = acts
    /\ givenRuns' = AnalyzeRuns(acts)
    /\ apc' = "analyzed"
    /\ UNCHANGED <<fn, result, serverVars, clientVars, apiVars>>

\* the entries of a ranked payload: rank: index + 1
Ranked(list) == [i \in 1..Len(list) |-> [rank |-> i, id |-> list[i]]]

\* the get_fastest_activities handler after analyzeRuns: getFastestRuns filters
\* into a new array and sorts that
CallGetFastestRuns(count, minDistance) ==
    /\ apc = "analyzed"
    /\ fn' = Call("getFastestRuns", count, minDistance, 0)
    /\ result' = Ranked(GetFastestRuns(givenRuns, count, minDistance))
    /\ apc' = "returned"
    /\ UNCHANGED <<givenActivities, givenRuns, serverVars, clientVars, apiVars>>

\* the get_longest_activities handler after analyzeRuns: getLongestRuns calls
\* runs.sort, which sorts the array it is given in place
CallGetLongestRuns(count) ==
    /\ apc = "analyzed"
    /\ fn' = Call("getLongestRuns", count, 0, 0)
    /\ result' = Ranked(GetLongestRuns(givenRuns, count))
    /\ givenRuns' = SortBy("distance_desc", givenRuns)
    /\ apc' = "returned"
    /\ UNCHANGED <<givenActivities, serverVars, clientVars, apiVars>>

\* minGapDays arguments, in days
MinGaps == {0, 5, MinGapDaysDefault, 20, 21}

\* the find_activity_gaps handler after analyzeRuns
CallFindActivityGaps(minGapDays) ==
    /\ apc = "analyzed"
    /\ fn' = Call("findActivityGaps", 0, 0, minGapDays)
    /\ result' = FindActivityGaps(givenRuns, minGapDays)
    /\ apc' = "returned"
    /\ UNCHANGED <<givenActivities, givenRuns, serverVars, clientVars, apiVars>>

\* the caller is done with the result
AnalysisEnd ==
    /\ apc = "returned"
    /\ apc' = "idle"
    /\ givenActivities' = <<>>
    /\ givenRuns' = <<>>
    /\ fn' = NoCall
    /\ result' = <<>>
    /\ UNCHANGED <<serverVars, clientVars, apiVars>>

\* an MM:SS pace string, by its two components
PaceString(minutes, seconds) == [minutes |-> minutes, seconds |-> seconds]

\* Math.round(paceSeconds % 60), the pace p in tenths of a second
RoundedSeconds(p) == ((p % 600) + 5) \div 10

\* formatPace of analyze-runs: per-run pace and the monthly summary pace
FormatPace(p) ==
    LET totalMinutes == p \div 600
        remainingSeconds == RoundedSeconds(p)
    IN  IF remainingSeconds = 60 THEN PaceString(totalMinutes + 1, 0)
        ELSE PaceString(totalMinutes, remainingSeconds)

\* calculateRunStats: averagePace of a time-of-day bucket or a weekday
CalculateRunStatsPace(p) == PaceString(p \div 600, RoundedSeconds(p))

\* formatPace of the double-day analysis
DoubleDaysFormatPace(p) == PaceString(p \div 600, RoundedSeconds(p))

\* pace_per_mile of a lap, in the get_activity_laps and find_fastest_laps handlers
LapPacePerMile(p) == PaceString(p \div 600, RoundedSeconds(p))

\* the places a pace string is built
PaceSites == {"formatPace", "calculateRunStats", "doubleDaysFormatPace", "lapPacePerMile"}

PaceAt(site, p) ==
    CASE site = "formatPace" -> FormatPace(p)
      [] site = "calculateRunStats" -> CalculateRunStatsPace(p)
      [] site = "doubleDaysFormatPace" -> DoubleDaysFormatPace(p)
      [] site = "lapPacePerMile" -> LapPacePerMile(p)

\* the pace values formatted, in tenths of a second: from MinPace to
\* MinPace + PaceSpan, around the turn of a minute
MinPace == 4750
PaceSpan == 100
PaceValues == MinPace..(MinPace + PaceSpan)

\* a pace of p tenths of a second per mile is formatted at a site
EmitPace(site, p) ==
    /\ apc = "idle"
    /\ fn' = Call(site, 0, 0, 0)
    /\ result' = [pace |-> p, text |-> PaceAt(site, p)]
    /\ apc' = "returned"
    /\ UNCHANGED <<givenActivities, givenRuns, serverVars, clientVars, apiVars>>

NextPace ==
    \/ \E site \in PaceSites, p \in PaceValues : EmitPace(site, p)
    \/ AnalysisEnd

SpecPace == Init /\ [][NextPace]_vars

\* the date filters ranges are derived from
RangeFilters ==
    {DateOpts(y, m, b, a) : y \in {None, 2023, 2024}, m \in {None, 1, 2, 12},
                            b \in {None, MkDate(2024, 3, 15)},
                            a \in {None, MkDate(2024, 1, 10)}}

\* days of clock the ranges are derived on
MaxRangeDays == 1

\* both getDateRangeFromFilter functions are applied to one filter at one clock
\* value, in a process whose zone is ahead of UTC or not
DeriveRange(o, days, tzAhead) ==
    /\ apc = "idle"
    /\ fn' = Call("getDateRangeFromFilter", 0, 0, 0)
    /\ result' = [filter |-> o, tzAhead |-> tzAhead, today |-> Today(days * MsPerDay),
                  fetched |-> FetchDateRange(o, days * MsPerDay, tzAhead),
                  filtered |-> SmartCacheDateRange(o, days * MsPerDay, tzAhead)]
    /\ apc' = "returned"
    /\ UNCHANGED <<givenActivities, givenRuns, serverVars, clientVars, apiVars>>

NextRange ==
    \/ \E o \in RangeFilters, days \in 0..MaxRangeDays, tzAhead \in BOOLEAN :
           DeriveRange(o, days, tzAhead)
    \/ AnalysisEnd

SpecRange == Init /\ [][NextRange]_vars

NextRuns ==
    \/ \E acts \in ActivityLists : CallAnalyzeRuns(acts)
    \/ \E count \in Counts, minDistance \in MinDistances :
           CallGetFastestRuns(count, minDistance)
    \/ \E count \in Counts : CallGetLongestRuns(count)
    \/ \E minGapDays \in MinGaps : CallFindActivityGaps(minGapDays)
    \/ AnalysisEnd

SpecRuns == Init /\ [][NextRuns]_vars

\* occurrences of x in the list s
Occurrences(s, x) == Cardinality({i \in DOMAIN s : s[i] = x})

\* a record that counts as a run: a run type in either field, at least 240 s
\* of moving time and at least one mile
Qualifies(i) ==
    /\ \/ Acts[i].type \in {"Run", "VirtualRun", "TrailRun"}
       \/ Acts[i].sport_type \in {"Run", "VirtualRun", "TrailRun"}
    /\ Acts[i].moving_time >= 240
    /\ Acts[i].distance * MetersToMilesE9 >= E9

\* C24: analyzeRuns returns each qualifying record of its input exactly once
\* and nothing else, newest start first, whatever the order of the input.
C24_AnalyzeRunsFilters ==
    apc = "analyzed" =>
        /\ \A i \in ActIds :
               Occurrences(givenRuns, i) =
                   (IF Qualifies(i) THEN Occurrences(givenActivities, i) ELSE 0)
        /\ \A k \in 1..(Len(givenRuns) - 1) :
               StartTime(givenRuns[k]) >= StartTime(givenRuns[k + 1])

\* a list in ascending date order with a run known by its sport type only, a
\* run at exactly 240 s and a record one metre short of a mile
C24_Witness ==
    /\ apc = "analyzed"
    /\ givenActivities = <<5, 4, 7>>
    /\ givenRuns = <<7, 4>>

\* the ids of a ranked payload, in list order
IdsOf(ranked) == [i \in DOMAIN ranked |-> ranked[i].id]

\* both ids are in the list s, a before b
Precedes(s, a, b) == \E i, j \in DOMAIN s : i < j /\ s[i] = a /\ s[j] = b

\* the run list the ranking function was given: analyzeRuns of the input
RunsGiven == AnalyzeRuns(givenActivities)

\* the list is in the order of the key, runs with equal keys in the order
\* they had in the list given
RankedStably(list, order) ==
    \A i, j \in DOMAIN list :
        i < j => /\ ~Before(order, list[j], list[i])
                 /\ (~Before(order, list[i], list[j]))
                        => Precedes(RunsGiven, list[i], list[j])

\* the n best of the candidates: nobody left out comes before somebody kept
BestOf(list, candidates, order, n) ==
    /\ \A i \in DOMAIN list : list[i] \in candidates
    /\ Len(list) = (IF Cardinality(candidates) < n THEN Cardinality(candidates) ELSE n)
    /\ \A x \in candidates :
           (\A i \in DOMAIN list : list[i] # x) =>
               \A i \in DOMAIN list :
                   /\ ~Before(order, x, list[i])
                   /\ (~Before(order, list[i], x)) => Precedes(RunsGiven, list[i], x)

\* the fastest or longest runs of the list given, for the count asked
RankingHolds(n) ==
    LET list == IdsOf(result)
        all == {RunsGiven[i] : i \in DOMAIN RunsGiven}
    IN  /\ \A i \in DOMAIN result : result[i].rank = i
        /\ IF fn.name = "getFastestRuns"
           THEN /\ RankedStably(list, "pace_asc")
                /\ BestOf(list, {x \in all : DistanceMiles100(x) >= 100 * fn.minDistance},
                          "pace_asc", n)
           ELSE /\ RankedStably(list, "distance_desc")
                /\ BestOf(list, all, "distance_desc", n)

\* a ranking function has returned
RankingReturned == apc = "returned" /\ fn.name \in {"getFastestRuns", "getLongestRuns"}

\* C26 as stated: get_fastest_activities and get_longest_activities return at
\* most count runs (none for a count below 1), the best ones by ascending
\* pace, of the runs of at least minDistance, or by descending distance, runs
\* with equal keys in input order, ranked 1, 2, ... in list order.
C26_RankedTopCount ==
    RankingReturned =>
        /\ Len(result) <= (IF fn.count < 0 THEN 0 ELSE fn.count)
        /\ RankingHolds(Len(result))

\* what holds of the ranking functions: for a count of 0 or more the claim's
\* ranking, and for a negative count the same ranking cut |count| runs
\* before its end
C26_RankedForEveryCount ==
    RankingReturned =>
        LET candidates ==
                IF fn.name = "getFastestRuns"
                THEN Len(SelectSeq(RunsGiven, LAMBDA x :
                             DistanceMiles100(x) >= 100 * fn.minDistance))
                ELSE Len(RunsGiven)
            n == IF fn.count >= 0 THEN fn.count
                 ELSE IF candidates + fn.count < 0 THEN 0 ELSE candidates + fn.count
        IN  RankingHolds(n) /\ Len(result) <= n

\* C27 as stated: an analytics function leaves the run list it was given as
\* it was, the same runs in the same order.
C27_RunListUntouched ==
    [][(apc = "analyzed" /\ apc' = "returned") => givenRuns' = givenRuns]_vars

\* the runs in ascending date order
Ascending(runList) == SortBy("date_asc", runList)

\* C30: findActivityGaps reports, in date order, exactly the pairs of runs
\* adjacent in ascending date order that lie minGapDays whole days or more
\* apart, each with daysOff the whole days between the two starts.
C30_GapsAreAdjacentPairs ==
    (apc = "returned" /\ fn.name = "findActivityGaps") =>
        LET sorted == Ascending(givenRuns)
            far == {i \in 1..(Len(sorted) - 1) :
                       StartTime(sorted[i + 1]) - StartTime(sorted[i])
                           >= 24 * fn.minGapDays}
        IN  /\ Len(result) = Cardinality(far)
            /\ \A i \in far :
                   \E k \in DOMAIN result :
                       /\ result[k].lastRunBefore = sorted[i]
                       /\ result[k].firstRunAfter = sorted[i + 1]
                       /\ 24 * result[k].daysOff
                              <= StartTime(sorted[i + 1]) - StartTime(sorted[i])
                       /\ 24 * (result[k].daysOff + 1)
                              > StartTime(sorted[i + 1]) - StartTime(sorted[i])
            /\ \A k, l \in DOMAIN result :
                   k < l => StartTime(result[k].lastRunBefore)
                               <= StartTime(result[l].lastRunBefore)

\* two runs 20 days and an hour apart, given newest first, threshold 14: one
\* gap with daysOff 20
C30_Witness ==
    /\ apc = "returned" /\ fn = Call("findActivityGaps", 0, 0, MinGapDaysDefault)
    /\ givenRuns = <<2, 9>>
    /\ result = <<Gap(9, 2, 20)>>

\* C25 as stated: every pace string emitted has its seconds in 00..59, a value
\* whose seconds round to 60 being shown as the next minute with :00.
C25_SecondsBelowSixty ==
    (apc = "returned" /\ fn.name \in PaceSites) =>
        /\ result.text.seconds \in 0..59
        /\ (result.pace % 600 >= 595) =>
               result.text = PaceString(result.pace \div 600 + 1, 0)

\* the range the claim states for a filter: the month, else the year, else
\* 2000-01-01 to today, an explicit after and before replacing the bounds
StatedRange(o, today) ==
    LET startDate == IF o.year # None /\ o.month # None THEN MkDate(o.year, o.month, 1)
                     ELSE IF o.year # None THEN MkDate(o.year, 1, 1)
                     ELSE MkDate(2000, 1, 1)
        endDate == IF o.year # None /\ o.month # None
                   THEN MkDate(o.year, o.month, LastDay(o.year, o.month))
                   ELSE IF o.year # None THEN MkDate(o.year, 12, 31)
                   ELSE today
    IN  [startDate |-> IF o.after # None THEN o.after ELSE startDate,
         endDate |-> IF o.before # None THEN o.before ELSE endDate]

\* C28 as stated: the range derived from a filter is the stated one, and the
\* fetch path and the superset filter derive the same range.
C28_RangeFromFilter ==
    (apc = "returned" /\ fn.name = "getDateRangeFromFilter") =>
        /\ result.fetched = StatedRange(result.filter, result.today)
        /\ result.filtered = result.fetched

\* what holds of the two functions: they agree, and in a zone not ahead of
\* UTC they give the stated range
C28_RangeWhenNotAhead ==
    (apc = "returned" /\ fn.name = "getDateRangeFromFilter") =>
        /\ result.filtered = result.fetched
        /\ ~result.tzAhead => result.fetched = StatedRange(result.filter, result.today)

----------------------------------------------------------------------------
(* Claims about the insight endpoint *)

\* a question that is missing, empty or not a string
Malformed(b) == b.kind # "string" \/ b.text = ""

\* an error envelope: status, message and details, no payload
IsEnvelope(r, status) ==
    r.status = status /\ r.message # "" /\ r.details # "" /\ r.payload = NoPayload

\* C29: a request whose question is missing, empty or not a string is
\* answered 400 with an error envelope and getInsight is not called; a
\* getInsight that throws is answered 500 with an error envelope; a
\* getInsight that returns is answered with its payload.
C29_EndpointAnswers ==
    [][\A q \in Callers :
          /\ (body[q] = NoBody /\ body'[q] # NoBody) =>
                 IF Malformed(body'[q])
                 THEN /\ IsEnvelope(response'[q], 400)
                      /\ nCalls' = nCalls /\ gpc' = gpc /\ question' = question
                 ELSE /\ response'[q] = NoResponse
                      /\ nCalls' = nCalls + 1 /\ question'[q] = body'[q].text
          /\ (response[q] = NoResponse /\ response'[q] # NoResponse
                  /\ body[q] # NoBody) =>
                 /\ gpc[q] \in {"done", "failed"}
                 /\ gpc[q] = "failed" =>
                        /\ IsEnvelope(response'[q], 500)
                        /\ response'[q].details = payload[q].error
                 /\ gpc[q] = "done" =>
                        /\ response'[q].status = 200
                        /\ response'[q].payload = payload[q]
                        /\ payload[q].status = "returned"]_vars

\* one request was answered 400 for a question that is a number, the other
\* 500 after getInsight threw
C29_Witness ==
    /\ body["u1"] = Question("number", "", 42) /\ response["u1"].status = 400
    /\ body["u2"] = Question("string", QuestionOf("u2"), 0)
    /\ response["u2"] = ErrorResponse(500, "Error generating insight", "connect failed")

----------------------------------------------------------------------------
(* The pattern analyses: each handler runs analyzeRuns and one of
   analyzeTimeOfDay, analyzeDayOfWeek, analyzeMonthlyLoadProgression and
   analyzeDoubleDays on its run list *)

\* the zone the process runs in: its standard offset from UTC in hours, and
\* the instants between which its clocks are one hour ahead of that
Zone(name, std, dstFrom, dstTo) ==
    [name |-> name, std |-> std, dstFrom |-> dstFrom, dstTo |-> dstTo]

\* hours from 2000-01-01T00:00Z to hour h of the date d
Instant(d, h) == DayNumber(d) * 24 + h

\* the zones the analyses are run in, with their clock changes of 2024
Zones ==
    {Zone("UTC", 0, 0, 0),
     Zone("America/New_York", 0 - 5, Instant(MkDate(2024, 3, 10), 7),
          Instant(MkDate(2024, 11, 3), 6)),
     Zone("Europe/Berlin", 1, Instant(MkDate(2024, 3, 31), 1),
          Instant(MkDate(2024, 10, 27), 1))}

\* the zone's offset from UTC at the instant t
OffsetAt(z, t) == z.std + (IF z.dstFrom <= t /\ t < z.dstTo THEN 1 ELSE 0)

\* the instant a local wall-clock time w of the zone stands for
LocalToUtc(z, w) ==
    IF OffsetAt(z, w - (z.std + 1)) = z.std + 1 THEN w - (z.std + 1) ELSE w - z.std

\* new Date(run.date): start_date_local ends in Z, so the instant is the
\* written time taken as UTC; its local fields are those of the process's zone
LocalTime(z, i) == StartTime(i) + OffsetAt(z, StartTime(i))

\* new Date(run.date).getHours()
GetHours(z, i) == LocalTime(z, i) % 24

\* new Date(run.date).getDay(), 0 is Sunday; 2000-01-01 was a Saturday
GetDay(z, i) == ((LocalTime(z, i) \div 24) + 6) % 7

\* the calendar date n days from the date d, n in -2..1
DateOffset(d, n) ==
    CASE n = 0 -> d
      [] n = 1 -> NextDay(d)
      [] n = 0 - 1 -> PrevDay(d)
      [] n = 0 - 2 -> PrevDay(PrevDay(d))

\* the local calendar date of new Date(run.date)
LocalDate(z, i) ==
    DateOffset(Acts[i].day, LocalTime(z, i) \div 24 - DayNumber(Acts[i].day))

\* run.date.split("T")[0]
DateKey(i) == Acts[i].day

\* pace_seconds of a run, in tenths of a second per mile
PaceSeconds10(i) ==
    (Acts[i].moving_time * 1000000) \div ((Acts[i].distance * MetersToMilesE9) \div 10000)

\* a number: a finite quotient num / den, NaN or Infinity
Finite(n, d) == [kind |-> "finite", num |-> n, den |-> d]
NaN == [kind |-> "NaN", num |-> 0, den |-> 1]
Infinity == [kind |-> "Infinity", num |-> 0, den |-> 1]

\* a / b of two finite numbers, b not negative: x / 0 is Infinity and 0 / 0 NaN
Quotient(a, b) ==
    IF b.num = 0
    THEN (IF a.num = 0 THEN NaN
          ELSE IF a.num > 0 THEN Infinity
          ELSE [kind |-> "-Infinity", num |-> 0, den |-> 1])
    ELSE Finite(a.num * b.den, a.den * b.num)

\* a - b of two finite numbers
Minus(a, b) == Finite(a.num * b.den - b.num * a.den, a.den * b.den)

\* x * k
Times(x, k) == IF x.kind = "finite" THEN Finite(x.num * k, x.den) ELSE x

\* sum of f over the runs of a list
RECURSIVE SumOver(_, _)
SumOver(f, s) == IF s = <<>> THEN 0 ELSE f[Head(s)] + SumOver(f, Tail(s))

DistanceOf == [i \in ActIds |-> DistanceMiles100(i)]
PaceOf == [i \in ActIds |-> PaceSeconds10(i)]
StartOf == [i \in ActIds |-> StartTime(i)]

\* a pace string: MM:SS with its two components, or NaN:NaN
PaceText(text, minutes, seconds) ==
    [text |-> text, minutes |-> minutes, seconds |-> seconds]

\* the template `${minutes}:${seconds.toString().padStart(2, "0")}` of a pace x
\* in tenths of a second: Math.floor and Math.round of NaN print as NaN
PaceTemplate(x) ==
    IF x.kind = "finite"
    THEN PaceText("MM:SS", DoubleDaysFormatPace(x.num \div x.den).minutes,
                  DoubleDaysFormatPace(x.num \div x.den).seconds)
    ELSE PaceText("NaN:NaN", 0, 0)

\* initializeRunStats()
InitializeRunStats ==
    [count |-> 0, totalDistance |-> 0, averageDistance |-> Finite(0, 1),
     averagePace |-> PaceText("MM:SS", 0, 0), averagePaceSeconds |-> Finite(0, 1),
     runs |-> <<>>]

\* calculateRunStats(runs), distances in hundredths of a mile
CalculateRunStats(runs) ==
    IF Len(runs) = 0 THEN InitializeRunStats
    ELSE LET totalDistance == SumOver(DistanceOf, runs)
             avgPaceSeconds == Finite(SumOver(PaceOf, runs), Len(runs))
         IN  [count |-> Len(runs), totalDistance |-> totalDistance,
              averageDistance |-> Finite(totalDistance, Len(runs)),
              averagePace |-> PaceTemplate(avgPaceSeconds),
              averagePaceSeconds |-> avgPaceSeconds, runs |-> runs]

\* variant: the evening window ends two hours early and night begins at 21
GetTimeOfDay_EveningEndsEarly(hour) ==
    IF hour >= 4 /\ hour < 8 THEN "earlyMorning"
    ELSE IF hour >= 8 /\ hour < 12 THEN "morning"
    ELSE IF hour >= 12 /\ hour < 17 THEN "afternoon"
    ELSE IF hour >= 17 /\ hour < 19 THEN "evening"
    ELSE IF hour >= 21 \/ hour < 4 THEN "night"
    ELSE "none"

\* getTimeOfDay, of the hour getHours() gives
GetTimeOfDay(hour) ==
    IF hour >= 4 /\ hour < 8 THEN "earlyMorning"
    ELSE IF hour >= 8 /\ hour < 12 THEN "morning"
    ELSE IF hour >= 12 /\ hour < 17 THEN "afternoon"
    ELSE IF hour >= 17 /\ hour < 21 THEN "evening"
    ELSE "night"

TimeSlots == {"earlyMorning", "morning", "afternoon", "evening", "night"}

\* analyzeTimeOfDay(runs): a run is pushed to timeSlots[getTimeOfDay(run.date)]
AnalyzeTimeOfDay(z, runs) ==
    [slot \in TimeSlots |->
        CalculateRunStats(SelectSeq(runs,
            LAMBDA i : GetTimeOfDay(GetHours(z, i)) = slot))]

\* the days array of analyzeDayOfWeek, by getDay()
Days == <<"Sunday", "Monday", "Tuesday", "Wednesday", "Thursday", "Friday", "Saturday">>

IsWeekendDay(d) == Days[d + 1] = "Saturday" \/ Days[d + 1] = "Sunday"

\* Math.min(...) and Math.max(...) of the runs' getTime(), in hours
EarliestStart(runs) ==
    CHOOSE t \in {StartTime(runs[k]) : k \in DOMAIN runs} :
        \A k \in DOMAIN runs : t <= StartTime(runs[k])
LatestStart(runs) ==
    CHOOSE t \in {StartTime(runs[k]) : k \in DOMAIN runs} :
        \A k \in DOMAIN runs : t >= StartTime(runs[k])

\* Math.ceil((end - start) / one week), 0 when dateRange is null
TotalWeeks(runs) ==
    IF Len(runs) = 0 THEN 0
    ELSE (LatestStart(runs) - EarliestStart(runs) + 7 * 24 - 1) \div (7 * 24)

\* calculateConsistency(dayRuns, isWeekend), a percentage
CalculateConsistency(runs, dayRuns, isWeekend) ==
    IF Len(runs) = 0 \/ Len(dayRuns) = 0 THEN Finite(0, 1)
    ELSE LET availableDays == TotalWeeks(runs) * (IF isWeekend THEN 2 ELSE 5)
         IN  Times(Quotient(Finite(Len(dayRuns), 1), Finite(availableDays, 1)), 100)

\* simplifyStats(dayRuns, isWeekend): Math.round(x * 10) / 10 of Infinity is
\* Infinity, and the rounding of a finite number is left out
SimplifyStats(runs, dayRuns, isWeekend) ==
    LET stats == CalculateRunStats(dayRuns)
    IN  [count |-> stats.count, totalDistance |-> stats.totalDistance,
         averageDistance |-> stats.averageDistance,
         averagePace |-> stats.averagePace,
         consistency |-> CalculateConsistency(runs, dayRuns, isWeekend)]

\* weekendStats.count > 0 ? weekdayStats.count / 5 / (weekendStats.count / 2) : 0
WeekdayToWeekendRatio(weekdays, weekends) ==
    IF weekends > 0 THEN Finite(weekdays * 2, 5 * weekends) ELSE Finite(0, 1)

\* isWeekendRunner: weekdayToWeekendRatio < 0.8
IsWeekendRunner(weekdays, weekends) ==
    WeekdayToWeekendRatio(weekdays, weekends).num * 10
        < 8 * WeekdayToWeekendRatio(weekdays, weekends).den

\* analyzeDayOfWeek(runs); the three day rankings of the summary are left out
AnalyzeDayOfWeek(z, runs) ==
    LET byDay == [d \in 0..6 |-> SelectSeq(runs, LAMBDA i : GetDay(z, i) = d)]
        weekendRuns == SelectSeq(runs, LAMBDA i : IsWeekendDay(GetDay(z, i)))
        weekdayRuns == SelectSeq(runs, LAMBDA i : ~IsWeekendDay(GetDay(z, i)))
        weekdayStats == SimplifyStats(runs, weekdayRuns, FALSE)
        weekendStats == SimplifyStats(runs, weekendRuns, TRUE)
    IN  [summary |->
            [isWeekendRunner |-> IsWeekendRunner(weekdayStats.count, weekendStats.count),
             weekdayToWeekendRatio |->
                 WeekdayToWeekendRatio(weekdayStats.count, weekendStats.count),
             averageRunsPerWeek |->
                 IF TotalWeeks(runs) > 0 THEN Finite(Len(runs), TotalWeeks(runs))
                 ELSE Finite(0, 1)],
         weekdayAvg |-> weekdayStats,
         weekendAvg |-> weekendStats,
         byDay |-> [d \in 0..6 |-> SimplifyStats(runs, byDay[d], IsWeekendDay(d))]]

\* getPreviousDay(run.date): setDate(getDate() - 1) goes one day back on the
\* local wall clock, and toISOString prints the UTC date of that instant
GetPreviousDay(z, i) ==
    LET instant == LocalToUtc(z, LocalTime(z, i) - 24)
    IN  DateOffset(Acts[i].day, instant \div 24 - DayNumber(Acts[i].day))

\* Object.keys(runsByDate): the dates of the runs, in order of first appearance
RECURSIVE DatesOf(_)
DatesOf(runs) ==
    IF runs = <<>> THEN <<>>
    ELSE LET earlier == DatesOf(SubSeq(runs, 1, Len(runs) - 1))
             date == DateKey(runs[Len(runs)])
         IN  IF \E k \in DOMAIN earlier : earlier[k] = date THEN earlier
             ELSE Append(earlier, date)

\* runsByDate[date]
RunsOn(runs, date) == SelectSeq(runs, LAMBDA i : DateKey(i) = date)

\* the entry pushed to doubleDays for a date with more than one run
DoubleDay(runs, date) ==
    LET sortedRuns == SortBy("date_asc", RunsOn(runs, date))
    IN  [date |-> date, runs |-> sortedRuns,
         totalDistance |-> SumOver(DistanceOf, sortedRuns),
         averagePace |-> CalculateRunStats(sortedRuns).averagePace]

\* (subsequent - normal) / normal * 100
PercentDiff(subsequent, normal) ==
    Times(Quotient(Minus(subsequent, normal), normal), 100)

\* calculateSubsequentDayPerformance(allRuns, doubleDayDates), with its two
\* filtered lists
CalculateSubsequentDayPerformance(z, allRuns, doubleDayDates) ==
    LET Includes(date) == \E k \in DOMAIN doubleDayDates : doubleDayDates[k] = date
        normalRuns == SelectSeq(allRuns, LAMBDA i :
                          ~Includes(DateKey(i)) /\ ~Includes(GetPreviousDay(z, i)))
        subsequentRuns == SelectSeq(allRuns, LAMBDA i : Includes(GetPreviousDay(z, i)))
        normalStats == CalculateRunStats(normalRuns)
        subsequentStats == CalculateRunStats(subsequentRuns)
    IN  [normalRuns |-> normalRuns, subsequentRuns |-> subsequentRuns,
         averagePace |-> subsequentStats.averagePace,
         averageDistance |-> subsequentStats.averageDistance,
         comparisonToNormal |->
             [pacePercentDiff |-> PercentDiff(subsequentStats.averagePaceSeconds,
                                              normalStats.averagePaceSeconds),
              distancePercentDiff |-> PercentDiff(subsequentStats.averageDistance,
                                                  normalStats.averageDistance)]]

\* analyzeDoubleDays(runs); frequency.byMonth and byDayOfWeek are left out
AnalyzeDoubleDays(z, runs) ==
    LET dates == SelectSeq(DatesOf(runs), LAMBDA d : Len(RunsOn(runs, d)) > 1)
        doubleDays == [k \in DOMAIN dates |-> DoubleDay(runs, dates[k])]
        total == Len(doubleDays)
        first == [k \in DOMAIN dates |-> doubleDays[k].runs[1]]
        second == [k \in DOMAIN dates |-> doubleDays[k].runs[2]]
        Average(sum) == Quotient(Finite(sum, 1), Finite(total, 1))
    IN  [doubleDays |-> doubleDays,
         patterns |->
             [frequency |-> [total |-> total],
              performance |->
                  [averageFirstRunDistance |-> Average(SumOver(DistanceOf, first)),
                   averageSecondRunDistance |-> Average(SumOver(DistanceOf, second)),
                   averageFirstRunPace |-> PaceTemplate(Average(SumOver(PaceOf, first))),
                   averageSecondRunPace |-> PaceTemplate(Average(SumOver(PaceOf, second))),
                   averageTimeBetweenRuns |->
                       Average(SumOver(StartOf, second) - SumOver(StartOf, first))]],
         subsequentDayPerformance |->
             CalculateSubsequentDayPerformance(z, runs, dates)]

\* F applied to v, with v evaluated once however often F uses it
Once(F(_), v) == CHOOSE r \in {F(x) : x \in {v}} : TRUE

\* monthKey: getFullYear() and getMonth() + 1 of new Date(run.date), as YYYYMM
MonthKey(z, i) == YearOf(LocalDate(z, i)) * 100 + MonthOf(LocalDate(z, i))

\* Object.keys(monthlyStats).sort(): the month keys of the runs, ascending
SortedMonths(z, runs) ==
    LET Sorted(keys) ==
            [n \in 1..Cardinality(keys) |->
                CHOOSE m \in keys : Cardinality({x \in keys : x <= m}) = n]
    IN  Once(Sorted, {MonthKey(z, runs[k]) : k \in DOMAIN runs})

\* (stats.totalMiles - prevStats.totalMiles) / prevStats.totalMiles * 100, kept
\* in thousandths of a percent
PercentChange(totalMiles, prevTotalMiles) ==
    ((totalMiles - prevTotalMiles) * 100000) \div prevTotalMiles

\* Math.round(percentChange * 10) / 10, in tenths of a percent
RoundedPercentChange(totalMiles, prevTotalMiles) ==
    ((totalMiles - prevTotalMiles) * 2000 + prevTotalMiles) \div (2 * prevTotalMiles)

\* variant: a month is compared with the first month of the data
PreviousIndex_First(index) == 1

\* sortedMonths[index - 1]: the month a month is compared with
PreviousIndex(index) == index - 1

\* percentChange > 10, on the unrounded change
IsOverTenPercent(totalMiles, prevTotalMiles) ==
    (totalMiles - prevTotalMiles) * 100 > 10 * prevTotalMiles

\* the monthlyStats entries in the order of sortedMonths, miles in hundredths
MonthlyStats(z, runs) ==
    LET InMonth(m) == SelectSeq(runs, LAMBDA i : MonthKey(z, i) = m)
        Totals(months) ==
            [n \in DOMAIN months |->
                [miles |-> SumOver(DistanceOf, InMonth(months[n])),
                 runs |-> Len(InMonth(months[n]))]]
        Stats(months, totals) ==
            [n \in DOMAIN months |->
                [month |-> months[n],
                 totalMiles |-> totals[n].miles,
                 totalRuns |-> totals[n].runs,
                 averageMilesPerRun |-> Finite(totals[n].miles, totals[n].runs),
                 prevMonth |-> IF n > 1 THEN months[PreviousIndex(n)] ELSE 0,
                 percentChange |->
                     IF n > 1
                     THEN PercentChange(totals[n].miles, totals[PreviousIndex(n)].miles)
                     ELSE 0,
                 percentChangeFromPrevMonth |->
                     IF n > 1
                     THEN RoundedPercentChange(totals[n].miles,
                                               totals[PreviousIndex(n)].miles)
                     ELSE 0,
                 isOverTenPercent |->
                     n > 1 /\ IsOverTenPercent(totals[n].miles,
                                               totals[PreviousIndex(n)].miles)]]
        WithTotals(months) == Once(LAMBDA totals : Stats(months, totals), Totals(months))
    IN  Once(WithTotals, SortedMonths(z, runs))

\* rampUpPeriods.push({...currentRampUp, averageMonthlyIncrease: ...})
ClosedRampUp(currentRampUp) ==
    [startMonth |-> currentRampUp.startMonth, endMonth |-> currentRampUp.endMonth,
     percentageIncrease |-> currentRampUp.percentageIncrease,
     monthCount |-> currentRampUp.monthCount,
     averageMonthlyIncrease |->
         Finite(currentRampUp.percentageIncrease, currentRampUp.monthCount)]

\* variant: a month that is not over ten percent leaves the period open
TrackRampUp_StaysOpen(tracked, stats) ==
    IF stats.isOverTenPercent
    THEN IF tracked.currentRampUp = <<>>
         THEN [tracked EXCEPT !.currentRampUp =
                  <<[startMonth |-> stats.prevMonth, endMonth |-> stats.month,
                     percentageIncrease |-> stats.percentChange, monthCount |-> 1]>>]
         ELSE [tracked EXCEPT !.currentRampUp =
                  <<[startMonth |-> tracked.currentRampUp[1].startMonth,
                     endMonth |-> stats.month,
                     percentageIncrease |->
                         tracked.currentRampUp[1].percentageIncrease + stats.percentChange,
                     monthCount |-> tracked.currentRampUp[1].monthCount + 1]>>]
    ELSE tracked

\* the body of sortedMonths.forEach for a month after the first: rampUpPeriods
\* and currentRampUp (<<>> is null) after it
TrackRampUp(tracked, stats) ==
    IF stats.isOverTenPercent
    THEN IF tracked.currentRampUp = <<>>
         THEN [tracked EXCEPT !.currentRampUp =
                  <<[startMonth |-> stats.prevMonth, endMonth |-> stats.month,
                     percentageIncrease |-> stats.percentChange, monthCount |-> 1]>>]
         ELSE [tracked EXCEPT !.currentRampUp =
                  <<[startMonth |-> tracked.currentRampUp[1].startMonth,
                     endMonth |-> stats.month,
                     percentageIncrease |->
                         tracked.currentRampUp[1].percentageIncrease + stats.percentChange,
                     monthCount |-> tracked.currentRampUp[1].monthCount + 1]>>]
    ELSE IF tracked.currentRampUp # <<>>
         THEN [rampUpPeriods |->
                   Append(tracked.rampUpPeriods, ClosedRampUp(tracked.currentRampUp[1])),
               currentRampUp |-> <<>>]
         ELSE tracked

\* rampUpPeriods and currentRampUp after forEach visited the first n months
RECURSIVE RampUpAfter(_, _)
RampUpAfter(monthlyStats, n) ==
    IF n <= 1 THEN [rampUpPeriods |-> <<>>, currentRampUp |-> <<>>]
    ELSE Once(LAMBDA tracked : TrackRampUp(tracked, monthlyStats[n]),
              RampUpAfter(monthlyStats, n - 1))

\* analyzeMonthlyLoadProgression(runs)
AnalyzeMonthlyLoadProgression(z, runs) ==
    LET Progression(monthlyStats, tracked) ==
            [monthlyStats |-> monthlyStats,
             rampUpPeriods |->
                 IF tracked.currentRampUp # <<>>
                 THEN Append(tracked.rampUpPeriods,
                             ClosedRampUp(tracked.currentRampUp[1]))
                 ELSE tracked.rampUpPeriods]
        Tracked(monthlyStats) ==
            Once(LAMBDA tracked : Progression(monthlyStats, tracked),
                 RampUpAfter(monthlyStats, Len(monthlyStats)))
    IN  Once(Tracked, MonthlyStats(z, runs))

\* runs in the longest list the pattern handlers fetch
MaxRuns == 5

\* the set S of ids as a list, lowest id first
RECURSIVE InIdOrder(_)
InIdOrder(S) ==
    IF S = {} THEN <<>>
    ELSE LET least == CHOOSE i \in S : \A j \in S : i <= j
         IN  <<least>> \o InIdOrder(S \ {least})

\* the records of a run type in either field
RunTyped == {i \in ActIds : IsRunType(Acts[i].type) \/ IsRunType(Acts[i].sport_type)}

\* the activity lists fetchActivities hands to the pattern handlers: up to
\* MaxRuns records of a run type, long enough to count as runs or not
FetchedLists == {InIdOrder(S) : S \in {T \in SUBSET RunTyped : Cardinality(T) <= MaxRuns}}

\* what a pattern handler computed, in the zone it ran in
Analysis(z, value) == [zone |-> z, value |-> value]

\* the get_time_of_day_analysis handler from analyzeRuns on
CallAnalyzeTimeOfDay(z, acts) ==
    /\ apc = "idle"
    /\ givenActivities' = acts
    /\ givenRuns' = AnalyzeRuns(acts)
    /\ fn' = Call("analyzeTimeOfDay", 0, 0, 0)
    /\ result' = Analysis(z, AnalyzeTimeOfDay(z, givenRuns'))
    /\ apc' = "returned"
    /\ UNCHANGED <<serverVars, clientVars, apiVars>>

\* the get_day_of_week_analysis handler from analyzeRuns on
CallAnalyzeDayOfWeek(z, acts) ==
    /\ apc = "idle"
    /\ givenActivities' = acts
    /\ givenRuns' = AnalyzeRuns(acts)
    /\ fn' = Call("analyzeDayOfWeek", 0, 0, 0)
    /\ result' = Analysis(z, AnalyzeDayOfWeek(z, givenRuns'))
    /\ apc' = "returned"
    /\ UNCHANGED <<serverVars, clientVars, apiVars>>

\* the find_double_days handler from analyzeRuns on
CallAnalyzeDoubleDays(z, acts) ==
    /\ apc = "idle"
    /\ givenActivities' = acts
    /\ givenRuns' = AnalyzeRuns(acts)
    /\ fn' = Call("analyzeDoubleDays", 0, 0, 0)
    /\ result' = Analysis(z, AnalyzeDoubleDays(z, givenRuns'))
    /\ apc' = "returned"
    /\ UNCHANGED <<serverVars, clientVars, apiVars>>

\* the analyze_monthly_load_progression handler from analyzeRuns on
CallAnalyzeMonthlyLoadProgression(z, acts) ==
    /\ apc = "idle"
    /\ givenActivities' = acts
    /\ givenRuns' = AnalyzeRuns(acts)
    /\ fn' = Call("analyzeMonthlyLoadProgression", 0, 0, 0)
    /\ result' = Analysis(z, AnalyzeMonthlyLoadProgression(z, givenRuns'))
    /\ apc' = "returned"
    /\ UNCHANGED <<serverVars, clientVars, apiVars>>

NextPatterns ==
    \/ \E z \in Zones, acts \in FetchedLists : CallAnalyzeTimeOfDay(z, acts)
    \/ \E z \in Zones, acts \in FetchedLists : CallAnalyzeDayOfWeek(z, acts)
    \/ \E z \in Zones, acts \in FetchedLists : CallAnalyzeDoubleDays(z, acts)
    \/ \E z \in Zones, acts \in FetchedLists :
           CallAnalyzeMonthlyLoadProgression(z, acts)
    \/ AnalysisEnd

SpecPatterns == Init /\ [][NextPatterns]_vars

\* the calendar dates with two or more of the given runs
DatesRunTwice ==
    {DateKey(givenRuns[k]) : k \in {j \in DOMAIN givenRuns :
        \E l \in DOMAIN givenRuns : l # j /\ DateKey(givenRuns[l]) = DateKey(givenRuns[j])}}

\* the given runs dated the day after a date with two or more runs
DatedDayAfter == {k \in DOMAIN givenRuns :
                     \E d \in DatesRunTwice : DateKey(givenRuns[k]) = NextDay(d)}

DoubleDaysReported ==
    LET doubleDays == result.value.doubleDays
        performance == result.value.subsequentDayPerformance
    IN  /\ \A d \in DatesRunTwice :
               Cardinality({k \in DOMAIN doubleDays : doubleDays[k].date = d}) = 1
        /\ \A k \in DOMAIN doubleDays : doubleDays[k].date \in DatesRunTwice
        /\ \A k \in DatedDayAfter :
               /\ Occurrences(performance.subsequentRuns, givenRuns[k]) = 1
               /\ Occurrences(performance.normalRuns, givenRuns[k]) = 0
        /\ \A k \in DOMAIN givenRuns :
               DateKey(givenRuns[k]) \in DatesRunTwice =>
                   Occurrences(performance.normalRuns, givenRuns[k]) = 0

\* C31: analyzeDoubleDays reports exactly one entry for each calendar date
\* with two or more runs and none for other dates; every run dated the day
\* after such a date is counted in subsequent-day performance and not in the
\* normal baseline, and no run of a double day is in the baseline
C31_DoubleDaysAndDayAfter ==
    (apc = "returned" /\ fn.name = "analyzeDoubleDays") => DoubleDaysReported

\* the zone's clocks did not change in the day before any of the given runs
NoClockChange(z) ==
    \A k \in DOMAIN givenRuns :
        OffsetAt(z, StartTime(givenRuns[k])) = OffsetAt(z, StartTime(givenRuns[k]) - 24)

\* C31, without a clock change: the entries, the subsequent-day runs and the
\* baseline are as stated when the process's zone kept its offset over the
\* day before each run
C31_DoubleDaysWithoutClockChange ==
    (apc = "returned" /\ fn.name = "analyzeDoubleDays" /\ NoClockChange(result.zone))
        => DoubleDaysReported

\* three runs on 2024-11-03 and one the next day, in UTC: one double day, the
\* next day's run in the subsequent-day list
C31_DayAfterCounted ==
    /\ apc = "returned" /\ fn.name = "analyzeDoubleDays"
    /\ result.zone.name = "UTC"
    /\ Len(result.value.doubleDays) = 1
    /\ Len(result.value.doubleDays[1].runs) = 3
    /\ result.value.subsequentDayPerformance.subsequentRuns = <<13>>
    /\ Len(result.value.subsequentDayPerformance.normalRuns) = 1

\* miles run in the month m by the given runs, in hundredths
MilesIn(m) ==
    SumOver(DistanceOf, SelectSeq(givenRuns, LAMBDA i : MonthKey(result.zone, i) = m))

\* the month keys are those of the runs, ascending; a month's change is
\* against the key before it and it is flagged exactly when above ten percent
MonthsCompared ==
    LET stats == result.value.monthlyStats
    IN  /\ {stats[n].month : n \in DOMAIN stats} =
               {MonthKey(result.zone, givenRuns[k]) : k \in DOMAIN givenRuns}
        /\ \A n \in DOMAIN stats :
               /\ stats[n].totalMiles = MilesIn(stats[n].month)
               /\ n = 1 => ~stats[n].isOverTenPercent
               /\ n > 1 =>
                      /\ stats[n - 1].month < stats[n].month
                      /\ stats[n].prevMonth = stats[n - 1].month
                      /\ stats[n].percentChange =
                             ((stats[n].totalMiles - stats[n - 1].totalMiles) * 100000)
                                 \div stats[n - 1].totalMiles
                      /\ stats[n].isOverTenPercent <=>
                             (stats[n].totalMiles - stats[n - 1].totalMiles) * 100
                                 > 10 * stats[n - 1].totalMiles

\* the maximal runs a..b of consecutive flagged months
FlaggedRuns ==
    LET stats == result.value.monthlyStats
        Flagged(n) == n \in DOMAIN stats /\ stats[n].isOverTenPercent
    IN  {ab \in (DOMAIN stats) \X (DOMAIN stats) :
            /\ ab[1] <= ab[2]
            /\ \A n \in ab[1]..ab[2] : Flagged(n)
            /\ ~Flagged(ab[1] - 1) /\ ~Flagged(ab[2] + 1)}

RECURSIVE SumOfChanges(_, _, _)
SumOfChanges(stats, a, b) ==
    IF a > b THEN 0 ELSE stats[a].percentChange + SumOfChanges(stats, a + 1, b)

\* one period for each maximal run of flagged months, and no other period
PeriodsAreFlaggedRuns ==
    LET stats == result.value.monthlyStats
        periods == result.value.rampUpPeriods
    IN  /\ Len(periods) = Cardinality(FlaggedRuns)
        /\ \A ab \in FlaggedRuns :
               \E k \in DOMAIN periods :
                   /\ periods[k].startMonth = stats[ab[1] - 1].month
                   /\ periods[k].endMonth = stats[ab[2]].month
                   /\ periods[k].monthCount = ab[2] - ab[1] + 1
                   /\ periods[k].percentageIncrease = SumOfChanges(stats, ab[1], ab[2])
                   /\ periods[k].averageMonthlyIncrease =
                          Finite(SumOfChanges(stats, ab[1], ab[2]), ab[2] - ab[1] + 1)
        /\ \A n \in DOMAIN stats :
               stats[n].isOverTenPercent =>
                   Cardinality({k \in DOMAIN periods :
                       periods[k].startMonth < stats[n].month
                       /\ stats[n].month <= periods[k].endMonth}) = 1

\* C32: in analyzeMonthlyLoadProgression a month's percent change is against
\* the month key before it in the data, the month is flagged exactly when the
\* change exceeds 10%, the ramp-up periods are the maximal runs of consecutive
\* flagged months, and a period's average monthly increase is the sum of its
\* months' changes divided by the number of its flagged months
C32_RampUpPeriods ==
    (apc = "returned" /\ fn.name = "analyzeMonthlyLoadProgression") =>
        MonthsCompared /\ PeriodsAreFlaggedRuns

\* January 1.24 miles, February 1.99 (flagged), March 1.99 (not flagged, closes
\* the period), November 3.05 (flagged, compared with March): two periods
C32_Witness ==
    /\ apc = "returned" /\ fn.name = "analyzeMonthlyLoadProgression"
    /\ Len(result.value.monthlyStats) = 4
    /\ Len(result.value.rampUpPeriods) = 2
    /\ result.value.rampUpPeriods[1].endMonth = 202402
    /\ result.value.rampUpPeriods[2].startMonth = 202403
    /\ result.value.rampUpPeriods[2].endMonth = 202411

\* February 1.00 mile, March 1.99 and November 3.05, both flagged: one period
\* of two months
C32_TwoMonthPeriod ==
    /\ apc = "returned" /\ fn.name = "analyzeMonthlyLoadProgression"
    /\ Len(result.value.rampUpPeriods) = 1
    /\ result.value.rampUpPeriods[1].monthCount = 2

\* C33: analyzeTimeOfDay places every run in exactly one of the five buckets,
\* the one whose window holds the hour getHours() gives for it -- [4,8)
\* earlyMorning, [8,12) morning, [12,17) afternoon, [17,21) evening, [21,24)
\* or [0,4) night -- so the five counts sum to the number of runs
HourWindow(slot) ==
    CASE slot = "earlyMorning" -> 4..7
      [] slot = "morning" -> 8..11
      [] slot = "afternoon" -> 12..16
      [] slot = "evening" -> 17..20
      [] slot = "night" -> (21..23) \cup (0..3)

RECURSIVE SumCounts(_, _)
SumCounts(stats, slots) ==
    IF slots = {} THEN 0
    ELSE LET slot == CHOOSE x \in slots : TRUE
         IN  stats[slot].count + SumCounts(stats, slots \ {slot})

IsFiniteNumber(x) == x.kind = "finite"

\* a pace string with digits on both sides of the colon
IsPaceString(p) == p.text = "MM:SS"

RunStatsFinite(stats) ==
    /\ IsFiniteNumber(stats.averageDistance)
    /\ IsPaceString(stats.averagePace)

TimeOfDayFinite(stats) ==
    \A slot \in TimeSlots :
        RunStatsFinite(stats[slot]) /\ IsFiniteNumber(stats[slot].averagePaceSeconds)

MonthlyLoadFinite(progression) ==
    /\ \A n \in DOMAIN progression.monthlyStats :
           IsFiniteNumber(progression.monthlyStats[n].averageMilesPerRun)
    /\ \A k \in DOMAIN progression.rampUpPeriods :
           IsFiniteNumber(progression.rampUpPeriods[k].averageMonthlyIncrease)

DayOfWeekFinite(stats) ==
    /\ IsFiniteNumber(stats.summary.weekdayToWeekendRatio)
    /\ IsFiniteNumber(stats.summary.averageRunsPerWeek)
    /\ RunStatsFinite(stats.weekdayAvg) /\ IsFiniteNumber(stats.weekdayAvg.consistency)
    /\ RunStatsFinite(stats.weekendAvg) /\ IsFiniteNumber(stats.weekendAvg.consistency)
    /\ \A d \in 0..6 :
           RunStatsFinite(stats.byDay[d]) /\ IsFiniteNumber(stats.byDay[d].consistency)

DoubleDaysFinite(analysis) ==
    LET performance == analysis.patterns.performance
        subsequent == analysis.subsequentDayPerformance
    IN  /\ \A k \in DOMAIN analysis.doubleDays :
               IsPaceString(analysis.doubleDays[k].averagePace)
        /\ IsFiniteNumber(performance.averageFirstRunDistance)
        /\ IsFiniteNumber(performance.averageSecondRunDistance)
        /\ IsPaceString(performance.averageFirstRunPace)
        /\ IsPaceString(performance.averageSecondRunPace)
        /\ IsFiniteNumber(performance.averageTimeBetweenRuns)
        /\ IsPaceString(subsequent.averagePace)
        /\ IsFiniteNumber(subsequent.averageDistance)
        /\ IsFiniteNumber(subsequent.comparisonToNormal.pacePercentDiff)
        /\ IsFiniteNumber(subsequent.comparisonToNormal.distancePercentDiff)

\* C34: for every run list -- empty, a single run, runs within one week, no
\* weekend runs, no double days, no baseline runs -- every numeric field and
\* pace string an analysis returns is finite and well-formed
C34_EveryFieldFinite ==
    apc = "returned" =>
        /\ fn.name = "analyzeTimeOfDay" => TimeOfDayFinite(result.value)
        /\ fn.name = "analyzeMonthlyLoadProgression" => MonthlyLoadFinite(result.value)
        /\ fn.name = "analyzeDayOfWeek" => DayOfWeekFinite(result.value)
        /\ fn.name = "analyzeDoubleDays" => DoubleDaysFinite(result.value)

\* C34, for the two analyses without a ratio of counts: the time-of-day
\* buckets and the monthly load progression have only finite fields
C34_BucketsAndMonthsFinite ==
    apc = "returned" =>
        /\ fn.name = "analyzeTimeOfDay" => TimeOfDayFinite(result.value)
        /\ fn.name = "analyzeMonthlyLoadProgression" => MonthlyLoadFinite(result.value)

\* C34, day of week: the fields are finite when the runs span more than an
\* instant, or when there is no run
C34_DayOfWeekFiniteOverSpan ==
    (apc = "returned" /\ fn.name = "analyzeDayOfWeek"
     /\ (givenRuns = <<>> \/ TotalWeeks(givenRuns) > 0)) => DayOfWeekFinite(result.value)

\* C34, double days: the fields are finite when there is a double day and a
\* baseline run
C34_DoubleDaysFiniteWithBaseline ==
    (apc = "returned" /\ fn.name = "analyzeDoubleDays"
     /\ result.value.doubleDays # <<>>
     /\ result.value.subsequentDayPerformance.normalRuns # <<>>)
        => DoubleDaysFinite(result.value)

\* the weekday and weekend runs handed to analyzeDayOfWeek
WeekdayRuns == result.value.weekdayAvg.count
WeekendRuns == result.value.weekendAvg.count

\* C35: analyzeDayOfWeek classifies the runner as a weekend runner exactly
\* when (weekday runs / 5) / (weekend runs / 2) < 0.8; with no weekend run
\* there is no such ratio and the runner is not a weekend runner
C35_WeekendRunnerByRatio ==
    (apc = "returned" /\ fn.name = "analyzeDayOfWeek") =>
        /\ WeekdayRuns + WeekendRuns = Len(givenRuns)
        /\ result.value.summary.isWeekendRunner <=>
               (WeekendRuns > 0 /\ WeekdayRuns * 2 * 10 < 8 * 5 * WeekendRuns)

\* C35, with weekend runs: when at least one run is on a Saturday or Sunday
\* the runner is a weekend runner exactly when the ratio is below 0.8
C35_WeekendRunnerWithWeekendRuns ==
    (apc = "returned" /\ fn.name = "analyzeDayOfWeek" /\ WeekendRuns > 0) =>
        /\ WeekdayRuns + WeekendRuns = Len(givenRuns)
        /\ result.value.summary.isWeekendRunner <=>
               (WeekdayRuns * 2 * 10 < 8 * 5 * WeekendRuns)

----------------------------------------------------------------------------
(* Claims about the superset, the shared client and failures *)

\* the options restrict the fetch: a year, month or before bound, or an
\* activity-type, manual or private filter
Restricts(o) ==
    \/ o.df /\ (o.year # None \/ o.month # None \/ o.before # None)
    \/ o.activityType # ""
    \/ o.includeManual = "false"
    \/ o.includePrivate = "false"

\* the lists an unbounded, unfiltered fetch has returned so far: the whole
\* Activity Source, as it was when it held n records
UnfilteredFetches == {FetchAllActivities(n) : n \in 0..srcCount}

\* C36: whenever the superset entry is present its list is the result of an
\* unbounded, unfiltered fetch, so a read served from it omits no record the
\* Activity Source held for that query
C36_SupersetIsUnfiltered ==
    allActivitiesCache # <<>> =>
        allActivitiesCache[1].activities \in UnfilteredFetches

\* C36, the writes: a set whose options restrict the fetch never installs or
\* replaces the superset
C36_RestrictedSetKeepsSuperset ==
    [][\A p \in Procs :
          (FetchReturn(p) /\ Restricts(opts[p]))
          => allActivitiesCache' = allActivitiesCache]_vars

\* C36, unrestricted options: a set without date filter and without filters
\* installs the whole list the Activity Source returned
C36_UnrestrictedSetInstallsAll ==
    [][\A p \in Procs :
          (FetchReturn(p) /\ opts[p] = NoOpts)
          => /\ allActivitiesCache' # <<>>
             /\ allActivitiesCache'[1].activities = res[p]
             /\ res[p] \in UnfilteredFetches]_vars

\* the caller is inside connect(): its transport is made and mcp.connect is
\* called, and the client is not yet marked connected by it
InConnect(q) == gpc[q] \in {"try_connect", "re_connect", "direct_connect"}

\* this step makes a transport and calls mcp.connect with it
TransportMade == transports' = transports + 1

\* C37: when getInsight or connect calls run concurrently on the shared
\* client while it is not connected, at most one transport is made and at
\* most one side-channel connect performed before it is marked connected: a
\* transport is made only when no other call is inside connect()
C37_OneTransportPerConnect ==
    [][TransportMade => \A q \in Callers : ~InConnect(q)]_vars

\* C37, one call at a time: a call that finds the client not connected and no
\* other call inside connect() makes one transport, and none when connected
C37_TransportOnlyWhenNotConnected ==
    [][/\ TransportMade => ~isConnected
       /\ transports' \in {transports, transports + 1}]_vars

\* getInsight's catch calls reconnect() in this step: the try failed and the
\* client is not connected
ReconnectCalled(q) ==
    /\ gpc[q] \in {"try_connect", "try_query"}
    /\ gpc'[q] \in {"re_disconnect", "failed"}
    /\ ~isConnected

\* connect() succeeded in this step
ConnectSucceeded == listCalls' = listCalls + 1

\* C38: the reconnect counter is between 0 and maxReconnectAttempts in every
\* state, also with concurrent getInsight calls; it is 0 right after every
\* successful connect; at the maximum a further reconnect() fails with 'Max
\* reconnection attempts reached' without disconnecting or connecting
C38_ReconnectCounterBounded ==
    [][/\ reconnectAttempts \in 0..MaxReconnectAttempts
       /\ reconnectAttempts' \in 0..MaxReconnectAttempts
       /\ ConnectSucceeded => (isConnected' /\ reconnectAttempts' = 0)
       /\ \A q \in Callers :
              ReconnectCalled(q) =>
                  IF reconnectAttempts = MaxReconnectAttempts
                  THEN /\ gpc'[q] = "failed"
                       /\ payload'[q] = Thrown("Max reconnection attempts reached")
                       /\ reconnectAttempts' = reconnectAttempts
                       /\ transports' = transports
                       /\ isConnected' = isConnected
                       /\ closed' = closed
                  ELSE /\ gpc'[q] = "re_disconnect"
                       /\ reconnectAttempts' = reconnectAttempts + 1]_vars

\* three getInsight calls each used one reconnection attempt and failed, and
\* the fourth was refused at the maximum
C38_Witness ==
    \E q \in Callers :
        /\ gpc[q] = "failed"
        /\ payload[q] = Thrown("Max reconnection attempts reached")
        /\ reconnectAttempts = MaxReconnectAttempts
        /\ attemptsInCall[q] = 0
        /\ ~isConnected

\* the Activity Source call of p's fetchActivities rejects in this step
SourceFails(p) == pc[p] = "await" /\ pc'[p] = "failed"

\* the handler of p's tool call takes the rejection of fetchActivities
FailureTaken(p) == hpc[p] = "fetching" /\ pc[p] = "failed" /\ pc'[p] = "idle"

\* C39: when the Activity Source call fails during fetchActivities no cache
\* write is performed -- the superset entry and every exact-match entry stay
\* as they are -- and the failure reaches the dispatcher, which returns an
\* error result for that tool call
C39_SourceFailureWritesNothing ==
    [][\A p \in Procs :
          /\ SourceFails(p) =>
                 /\ allActivitiesCache' = allActivitiesCache
                 /\ queryCache' = queryCache
                 /\ hpc'[p] = "fetching"
          /\ FailureTaken(p) =>
                 /\ allActivitiesCache' = allActivitiesCache
                 /\ queryCache' = queryCache
                 /\ hpc'[p] = "returned"
                 /\ ~out'[p].raised
                 /\ out'[p].isError
                 /\ out'[p].error = "Upstream error"
                 /\ out'[p].tool = tool[p]
                 /\ out'[p].result = <<>>]_vars

\* a date-bounded list was stored by an earlier request, then the Activity
\* Source failed for a request with other options: the stored entry is kept,
\* no superset exists, and the request returned an error result
C39_Witness ==
    \E p \in Procs :
        /\ Returned(p) /\ threw[p] = "Upstream error"
        /\ out[p].isError /\ ~out[p].raised
        /\ Len(queryCache) = 1 /\ queryCache[1].activities # <<>>
        /\ queryCache[1].key # QueryKey(NoOpts)
        /\ allActivitiesCache = <<>>

\* disconnect() reached its transport close: mcp.close() did not reject
TransportCloseAttempted(q) == closed'[q] \in {"closed", "transport_close_failed"}

\* C40: every disconnect() that settles while a transport exists has
\* attempted to close it, also when closing the side channel rejected, and
\* unless the transport's own close rejected the transport is not open once
\* disconnect() has returned
C40_DisconnectClosesTransport ==
    [][\A q \in Callers :
          (DisconnectSettles(q) /\ transports > 0) =>
              /\ TransportCloseAttempted(q)
              /\ closed'[q] # "transport_close_failed" => ~transportOpen']_vars

\* what the code keeps: when both close calls succeed the transport that
\* this.transport names is closed
C40_TransportClosedOnSuccess ==
    [][\A q \in Callers :
          (DisconnectSettles(q) /\ closed'[q] = "closed") => ~transportOpen']_vars

\* a disconnect() whose mcp.close() rejected has returned and the transport
\* made by connect() is still open
C40_TransportLeftOpen ==
    \E q \in Callers :
        /\ gpc[q] = "disconnected" /\ closed[q] = "mcp_close_failed"
        /\ transports > 0 /\ transportOpen

====
